---- MODULE Spec2Model ----
(***************************************************************************)
(* CardCleaner of anki_deck_cleaner.py as a state machine.                 *)
(*                                                                         *)
(* A text (a Python str) is a sequence of lexemes.  A lexeme is a TLA+     *)
(* string that stands for the characters it spells, except NBSP (U+00A0)   *)
(* and SHY (U+00AD), and PA ("p" and a-ring) and "anvands" (with a-umlaut). *)
(* Word characters are one lexeme each, so that the     *)
(* \w{0,3}, \b and len() of the source count lexemes; markup and the       *)
(* lexical cues whose characters are never matched one by one are one      *)
(* lexeme each: "<br>", "<i>", "</i>", "<img>", "</span>", "t.ex.", "Or,", *)
(* "[sound:x]", the pieces of an entity ("&" and its name, "nbsp;") and    *)
(* the pieces of a styled span's open tag ("<span style=\"", "color:",     *)
(* a colour value, ";", "\">").  In every lexeme "<" can only be the       *)
(* first and ">" only the last character.                                   *)
(*                                                                         *)
(* The texts of the model are built from these lexemes, and the operators  *)
(* are the source's regular expressions and str methods over them.  What   *)
(* the texts leave out:                                                    *)
(*  - "&" is followed by the name of an entity or by no word character     *)
(*    (html.unescape also decodes names without ";", such as "&deg");      *)
(*  - a word character is not followed by a lexeme of several characters   *)
(*    that begins with a word character, except inside a style attribute;  *)
(*  - the open tag of a styled span is SPANSTYLE, style lexemes, ATTREND;  *)
(*    style attributes in single quotes are not modelled;                  *)
(*  - no text spells a tag name or a cue ("pl:", "best:", "t.ex.") letter  *)
(*    by letter: the letter x is not a word character of a text, and the   *)
(*    letters b, i, l, p, r stand only in the words of the scenario cards; *)
(*  - white space is the space; line feeds and tabs are not in the texts.  *)
(*                                                                         *)
(* Each family of cards below (InitSeg, InitTwice, InitNorm, InitStyle,    *)
(* InitItalic, InitCanon, InitExample and the later ones) starts clean_card on every card of  *)
(* the family.                                                             *)
(***************************************************************************)
EXTENDS Integers, Sequences, FiniteSets, TLC

VARIABLES
    front,          \* the front argument of the current / last clean_card call
    back,           \* the back argument of the current / last clean_card call
    pc,             \* "ready": call pending, "returned": the call has returned
    calls,          \* number of clean_card calls made on this CardCleaner
    outFront,       \* returned front
    outBack,        \* returned back
    changed,        \* returned changed flag
    normFront,      \* local front after Step 1
    normBack,       \* local back after Step 1
    definitions,    \* local definitions after Step 2
    cleaned,        \* local cleaned_definitions after Step 3
    italicTerms,    \* self._italic_terms
    italicArticle,  \* self._italic_article ("" stands for None)
    peer,           \* the clean_card call of a second thread on the same CardCleaner:
                    \* its arguments, its position, its locals after Step 1 and its result
    review          \* the AnkiDeckCleaner and the review of one deck: the cards of the deck in
                    \* Anki, self._deck_card_ids_cache, the client's position and the last result

vars == <<front, back, pc, calls, outFront, outBack, changed, normFront, normBack, definitions, cleaned, italicTerms, italicArticle, peer, review>>

----------------------------------------------------------------------------
(* Lexemes *)

SP == " "
BR == "<br>"
QT == "\""
SQ == "'"
IOPEN == "<i>"
ICLOSE == "</i>"
IMG == "<img>"
SPANCLOSE == "</span>"
SPANSTYLE == "<span style=\""
ATTREND == "\">"
TEX == "t.ex."
ORSEP == "Or,"
SOUND == "[sound:x]"
NBSP == "NBSP"
SHY == "SHY"
AMP == "&"
COLORKEY == "color:"
BGPREFIX == "background-"
PA == "PA"
CUEBEST == "best:"
CUEPL == "pl:"
ORDET == "Ordet"
ANVANDS == "anvands"
FONTDECL == "font-weight:bold"
SEMI == ";"
HEXUP == "#C2C2C2"
HEXLOW == "#c2c2c2"
RGBGRAY == "rgb(194, 194, 194)"
RGBTIGHT == "rgb(194,194,194)"
RED == "red"

Digits == {"0", "1", "2", "3", "4", "5", "6", "7", "8", "9"}
LowerLetters == {"a", "b", "d", "e", "g", "i", "k", "l", "m", "n", "o", "p", "r", "s", "t", "u", "v", "y"}
UpperLetters == {"A", "D", "E", "M", "R", "S"}
Letters == LowerLetters \cup UpperLetters
WordChars == Letters \cup Digits \cup {"_"}
EntityNames == {"amp;", "lt;", "gt;", "nbsp;", "shy;", "quot;"}
\* words of several characters that are one lexeme
LongWords == {PA, ORDET, "ordet", ANVANDS}

\* str.lower() / re.IGNORECASE on one lexeme
Lower(c) ==
    CASE c = "A" -> "a"
      [] c = "D" -> "d"
      [] c = "E" -> "e"
      [] c = "R" -> "r"
      [] c = "M" -> "m"
      [] c = "S" -> "s"
      [] c = "Or," -> "or,"
      [] c = "OR," -> "or,"
      [] c = "T.ex." -> "t.ex."
      [] c = HEXUP -> HEXLOW
      [] c = ORDET -> "ordet"
      [] OTHER -> c

\* \s and str.strip(): U+00A0 is white space for Python, U+00AD is not
IsSpace(c) == c \in {SP, NBSP}
\* \d
IsDigit(c) == c \in Digits
\* the first character of the lexeme is a \w character
StartsWord(c) == c \in WordChars \cup LongWords \cup EntityNames \cup {TEX, "T.ex.", ORSEP, "or,", "OR,", CUEBEST, CUEPL, COLORKEY, BGPREFIX, FONTDECL, RGBGRAY, RGBTIGHT, RED}
\* the last character of the lexeme is a \w character
EndsWord(c) == c \in WordChars \cup LongWords \cup {HEXUP, HEXLOW, RED, FONTDECL}
\* the lexeme holds a "<" (always its first character)
HasLt(c) == c \in {"<", BR, IOPEN, ICLOSE, IMG, SPANCLOSE, SPANSTYLE, "<span>"}
\* the lexeme holds a ">" (always its last character)
HasGt(c) == c \in {">", BR, IOPEN, ICLOSE, IMG, SPANCLOSE, ATTREND, "<span>"}

----------------------------------------------------------------------------
(* str helpers *)

RECURSIVE LStripFrom(_, _)
LStripFrom(s, i) ==
    IF i <= Len(s) /\ IsSpace(s[i]) THEN LStripFrom(s, i + 1) ELSE i

RECURSIVE RStripTo(_, _)
RStripTo(s, j) ==
    IF j >= 1 /\ IsSpace(s[j]) THEN RStripTo(s, j - 1) ELSE j

\* str.lstrip()
LStrip(s) == SubSeq(s, LStripFrom(s, 1), Len(s))
\* str.rstrip()
RStrip(s) == SubSeq(s, 1, RStripTo(s, Len(s)))
\* str.strip()
Strip(s) == RStrip(LStrip(s))

\* s[i:] begins with p
MatchAt(s, i, p) ==
    /\ i + Len(p) - 1 <= Len(s)
    /\ \A k \in 1..Len(p) : s[i + k - 1] = p[k]

\* s[i:] begins with p, ignoring case
MatchAtI(s, i, p) ==
    /\ i + Len(p) - 1 <= Len(s)
    /\ \A k \in 1..Len(p) : Lower(s[i + k - 1]) = Lower(p[k])

StartsWith(s, p) == MatchAt(s, 1, p)
EndsWith(s, p) == Len(p) <= Len(s) /\ MatchAt(s, Len(s) - Len(p) + 1, p)

\* p in s
Contains(s, p) == \E i \in 1..(Len(s) + 1) : MatchAt(s, i, p)

\* from i on, the index after the run of white space
RECURSIVE SkipSpaces(_, _)
SkipSpaces(s, i) ==
    IF i <= Len(s) /\ IsSpace(s[i]) THEN SkipSpaces(s, i + 1) ELSE i

\* from i on, the index after the run of digits
RECURSIVE SkipDigits(_, _)
SkipDigits(s, i) ==
    IF i <= Len(s) /\ IsDigit(s[i]) THEN SkipDigits(s, i + 1) ELSE i

\* sep.join(parts)
RECURSIVE Join(_, _)
Join(parts, sep) ==
    IF Len(parts) = 0 THEN <<>>
    ELSE IF Len(parts) = 1 THEN parts[1]
    ELSE parts[1] \o sep \o Join(Tail(parts), sep)

\* the first match of a scan: of the pairs <<k, e>> of hits, e > 0 the index where
\* the match at index k ends, the pair of the least k; <<n + 1, 0>> when there is none
FirstHit(hits, n) ==
    LET found == {h \in hits : h[2] > 0}
    IN IF found = {} THEN <<n + 1, 0>> ELSE CHOOSE h \in found : \A g \in found : h[1] <= g[1]

\* s.split(sep) for a separator of one lexeme
RECURSIVE SplitLex(_, _, _, _)
SplitLex(s, sep, i, cur) ==
    LET Cut(m) == IF m[2] = 0 THEN <<cur \o SubSeq(s, i, Len(s))>>
                  ELSE <<cur \o SubSeq(s, i, m[1] - 1)>> \o SplitLex(s, sep, m[2], <<>>)
    IN Cut(FirstHit({<<k, IF s[k] = sep THEN k + 1 ELSE 0>> : k \in i..Len(s)}, Len(s)))

SplitBr(s) == SplitLex(s, BR, 1, <<>>)

\* s.replace(a, b) for one-lexeme a and b
ReplaceLex(s, a, b) == [k \in 1..Len(s) |-> IF s[k] = a THEN b ELSE s[k]]

\* the parts that are not empty
RECURSIVE NonEmpty(_)
NonEmpty(parts) ==
    IF Len(parts) = 0 THEN <<>>
    ELSE IF Len(Head(parts)) = 0 THEN NonEmpty(Tail(parts))
    ELSE <<Head(parts)>> \o NonEmpty(Tail(parts))

----------------------------------------------------------------------------
(* clean_card, Step 1 *)

\* the character an entity name decodes to
EntityChar(name) ==
    CASE name = "amp;" -> AMP
      [] name = "lt;" -> "<"
      [] name = "gt;" -> ">"
      [] name = "nbsp;" -> NBSP
      [] name = "shy;" -> SHY
      [] name = "quot;" -> QT

\* html.unescape: one left-to-right pass, a decoded "&" is not looked at again
RECURSIVE UnescapeFrom(_, _)
UnescapeFrom(s, i) ==
    LET Decode(m) == IF m[2] = 0 THEN SubSeq(s, i, Len(s))
                     ELSE SubSeq(s, i, m[1] - 1) \o <<EntityChar(s[m[1] + 1])>> \o UnescapeFrom(s, m[2])
    IN Decode(FirstHit({<<k, IF s[k] = AMP /\ s[k + 1] \in EntityNames THEN k + 2 ELSE 0>> : k \in i..(Len(s) - 1)}, Len(s)))

Unescape(s) == UnescapeFrom(s, 1)

\* only U+00A0 replaced
ReplaceNbspOnly(s) == ReplaceLex(s, NBSP, SP)

\* back.replace(U+00A0, ' ') and back.replace(U+00AD, ' ')
ReplaceSoft(s) == ReplaceLex(ReplaceLex(s, NBSP, SP), SHY, SP)

\* clean_card Step 1 on one field
DecodeField(s) == ReplaceSoft(Unescape(s))

----------------------------------------------------------------------------
(* _set_italic_terms_from_front *)

\* re.sub(r'\s*\[sound:[^\]]+\]\s*', ' ', text)
RECURSIVE SoundSub(_, _)
SoundSub(s, i) ==
    IF i > Len(s) THEN <<>>
    ELSE LET j == SkipSpaces(s, i)
         IN IF j <= Len(s) /\ s[j] = SOUND
            THEN <<SP>> \o SoundSub(s, SkipSpaces(s, j + 1))
            ELSE <<s[i]>> \o SoundSub(s, i + 1)

\* index of "(" when s[..j] ends with \(\d+\), else 0
CountOpenBefore(s, j) ==
    IF j < 3 \/ s[j] # ")" THEN 0
    ELSE LET k == CHOOSE k \in 0..(j - 1) : (\A x \in (k + 1)..(j - 1) : IsDigit(s[x])) /\ (k = 0 \/ ~IsDigit(s[k]))
         IN IF k >= 1 /\ k < j - 1 /\ s[k] = "(" THEN k ELSE 0

\* re.sub(r'\s*\(\d+\)\s*$', '', text)
StripCountLoose(s) ==
    LET p == CountOpenBefore(s, RStripTo(s, Len(s)))
    IN IF p = 0 THEN s ELSE SubSeq(s, 1, RStripTo(s, p - 1))

\* re.sub(r'\s*\(\d+\)$', '', front)
StripCountTight(s) ==
    LET p == CountOpenBefore(s, Len(s))
    IN IF p = 0 THEN s ELSE SubSeq(s, 1, RStripTo(s, p - 1))

\* length of the match of ^(en|ett|att)\s+ ignoring case, 0 when there is none
ArticleLen(s) ==
    LET n == IF MatchAtI(s, 1, <<"e", "n">>) THEN 2
             ELSE IF MatchAtI(s, 1, <<"e", "t", "t">>) \/ MatchAtI(s, 1, <<"a", "t", "t">>) THEN 3
             ELSE 0
    IN IF n > 0 /\ n < Len(s) /\ IsSpace(s[n + 1]) THEN SkipSpaces(s, n + 1) - 1 ELSE 0

\* the front without sound markers and count
FrontHeadText(f) == Strip(StripCountLoose(SoundSub(f, 1)))

\* self._italic_article
ArticleOf(f) ==
    LET text == FrontHeadText(f)
        n == ArticleLen(text)
    IN IF n = 0 THEN ""
       ELSE IF Lower(text[1]) = "a" THEN "att"
       ELSE IF Lower(text[2]) = "n" THEN "en"
       ELSE "ett"

\* the headword: the front without markers, count and article
HeadwordOf(f) ==
    LET text == FrontHeadText(f)
    IN Strip(SubSeq(text, ArticleLen(text) + 1, Len(text)))

MinSuffixLen == 4
MinStemLen == 5

\* the terms of a card "stam" cleaned before, used when the front yields none
TermsOfOrEarlier(f) ==
    LET text == HeadwordOf(f)
        single == \A k \in 1..Len(text) : text[k] # SP
    IN IF Len(text) = 0 THEN <<[term |-> <<"s", "t", "a", "m">>, suffix |-> TRUE]>>
       ELSE <<[term |-> text, suffix |-> single /\ Len(text) >= MinSuffixLen]>>
            \o (IF single /\ Len(text) >= MinStemLen /\ Lower(text[Len(text)]) = "a"
                THEN <<[term |-> SubSeq(text, 1, Len(text) - 1), suffix |-> TRUE]>>
                ELSE <<>>)

\* the terms in the order of their lengths, the shortest first
ShortestFirst(terms) ==
    IF Len(terms) = 2 /\ Len(terms[1].term) > Len(terms[2].term) THEN <<terms[2], terms[1]>> ELSE terms

\* terms.sort(key=lambda t: len(t[0]), reverse=True), of at most two terms
SortTerms(terms) ==
    IF Len(terms) = 2 /\ Len(terms[1].term) < Len(terms[2].term) THEN <<terms[2], terms[1]>> ELSE terms

\* self._italic_terms
TermsOf(f) ==
    LET text == HeadwordOf(f)
        single == \A k \in 1..Len(text) : text[k] # SP
    IN IF Len(text) = 0 THEN <<>>
       ELSE SortTerms(<<[term |-> text, suffix |-> single /\ Len(text) >= MinSuffixLen]>>
            \o (IF single /\ Len(text) >= MinStemLen /\ Lower(text[Len(text)]) = "a"
                THEN <<[term |-> SubSeq(text, 1, Len(text) - 1), suffix |-> TRUE]>>
                ELSE <<>>))

----------------------------------------------------------------------------
(* _extract_definitions *)

\* (?=\d+\.\s) at index i
NumberAhead(s, i) ==
    LET j == SkipDigits(s, i)
    IN j > i /\ j + 1 <= Len(s) /\ s[j] = "." /\ IsSpace(s[j + 1])

\* re.split(r'<br><br>(?=\d+\.\s)', back)
RECURSIVE SplitNumbered(_, _, _)
SplitNumbered(s, i, cur) ==
    LET Cut(m) == IF m[2] = 0 THEN <<cur \o SubSeq(s, i, Len(s))>>
                  ELSE <<cur \o SubSeq(s, i, m[1] - 1)>> \o SplitNumbered(s, m[2], <<>>)
    IN Cut(FirstHit({<<k, IF s[k] = BR /\ s[k + 1] = BR /\ NumberAhead(s, k + 2) THEN k + 2 ELSE 0>> : k \in i..(Len(s) - 1)}, Len(s)))

\* re.sub(r'^\d+\.\s*', '', part)
StripNumberPrefix(p) ==
    LET j == SkipDigits(p, 1)
    IN IF j > 1 /\ j <= Len(p) /\ p[j] = "." THEN SubSeq(p, SkipSpaces(p, j + 1), Len(p)) ELSE p

\* self.or_separator_pattern.split(back): <br>\s*Or,\s* ignoring case
RECURSIVE SplitOr(_, _, _)
SplitOr(s, i, cur) ==
    LET Cut(m) == IF m[2] = 0 THEN <<cur \o SubSeq(s, i, Len(s))>>
                  ELSE <<cur \o SubSeq(s, i, m[1] - 1)>> \o SplitOr(s, m[2], <<>>)
        OrEnd(k) == LET j == SkipSpaces(s, k + 1)
                    IN IF s[k] = BR /\ j <= Len(s) /\ Lower(s[j]) = "or," THEN SkipSpaces(s, j + 1) ELSE 0
    IN Cut(FirstHit({<<k, OrEnd(k)>> : k \in i..Len(s)}, Len(s)))

StripEach(parts) == [k \in 1..Len(parts) |-> Strip(parts[k])]
StripNumberEach(parts) == [k \in 1..Len(parts) |-> StripNumberPrefix(Strip(parts[k]))]

\* the separators tried in the other order: "Or," first, numbering second
ExtractDefinitionsOrFirst(b) ==
    LET numbered == SplitNumbered(b, 1, <<>>)
        ors == SplitOr(b, 1, <<>>)
    IN IF Len(ors) > 1 THEN NonEmpty(StripEach(ors))
       ELSE IF Len(numbered) > 1 THEN NonEmpty(StripNumberEach(numbered))
       ELSE <<Strip(b)>>

ExtractDefinitions(b) ==
    LET numbered == SplitNumbered(b, 1, <<>>)
        ors == SplitOr(b, 1, <<>>)
    IN IF Len(numbered) > 1 THEN NonEmpty(StripNumberEach(numbered))
       ELSE IF Len(ors) > 1 THEN NonEmpty(StripEach(ors))
       ELSE <<Strip(b)>>

----------------------------------------------------------------------------
(* _normalize_gray_span_styles and _gray_span_open_tag *)

\* first index >= i of a lexeme in set S, Len(s) + 1 when there is none
FindIn(s, i, S) == FirstHit({<<k, IF s[k] \in S THEN 1 ELSE 0>> : k \in i..Len(s)}, Len(s))[1]

\* first index >= i of a lexeme holding ">", Len(s) + 1 when there is none
FindGt(s, i) == FirstHit({<<k, IF HasGt(s[k]) THEN 1 ELSE 0>> : k \in i..Len(s)}, Len(s))[1]

\* a match of color\s*:\s*[^;]+ starts at k
ColorAt(style, k) == style[k] = COLORKEY /\ k < Len(style) /\ style[k + 1] # SEMI

\* first k >= i with ColorAt, 0 when there is none
RECURSIVE FirstColor(_, _)
FirstColor(style, i) ==
    IF i > Len(style) THEN 0
    ELSE IF ColorAt(style, i) THEN i
    ELSE FirstColor(style, i + 1)

\* is_gray_value, on the stripped value
IsGrayValue(v) == Len(v) = 1 /\ v[1] \in {HEXUP, HEXLOW, RGBGRAY, RGBTIGHT}

\* re.sub(r'color\s*:\s*[^;]+\s*;?', '', style)
RECURSIVE RemoveColors(_, _)
RemoveColors(style, i) ==
    IF i > Len(style) THEN <<>>
    ELSE IF ColorAt(style, i) THEN RemoveColors(style, FindIn(style, i + 1, {SEMI}) + 1)
    ELSE <<style[i]>> \o RemoveColors(style, i + 1)

\* re.sub(r';\s*;', ';', s)
RECURSIVE CollapseSemis(_, _)
CollapseSemis(s, i) ==
    IF i > Len(s) THEN <<>>
    ELSE LET j == SkipSpaces(s, i + 1)
         IN IF s[i] = SEMI /\ j <= Len(s) /\ s[j] = SEMI
            THEN <<SEMI>> \o CollapseSemis(s, j + 1)
            ELSE <<s[i]>> \o CollapseSemis(s, i + 1)

\* s.strip(' ;')
RECURSIVE StripSemi(_)
StripSemi(s) ==
    IF Len(s) = 0 THEN s
    ELSE IF s[1] \in {SP, SEMI} THEN StripSemi(Tail(s))
    ELSE IF s[Len(s)] \in {SP, SEMI} THEN StripSemi(SubSeq(s, 1, Len(s) - 1))
    ELSE s

CanonicalColor == <<COLORKEY, SP, RGBGRAY>>

\* the style left as it is, whatever its colour
NormalizeStyleKeep(style) == style

\* a gray colour rewritten to the canonical declaration, any other colour kept
NormalizeStyleCanonical(style) ==
    LET k == FirstColor(style, 1)
    IN IF k = 0 THEN style
       ELSE IF IsGrayValue(Strip(SubSeq(style, k + 1, FindIn(style, k + 1, {SEMI}) - 1)))
            THEN LET rest == StripSemi(CollapseSemis(Strip(RemoveColors(style, 1)), 1))
                 IN IF Len(rest) > 0 THEN CanonicalColor \o <<SEMI, SP>> \o rest ELSE CanonicalColor
       ELSE style

\* normalize_style
NormalizeStyle(style) ==
    LET k == FirstColor(style, 1)
    IN IF k = 0 THEN style
       ELSE IF IsGrayValue(Strip(SubSeq(style, k + 1, FindIn(style, k + 1, {SEMI}) - 1))) THEN style
       ELSE LET rest == StripSemi(CollapseSemis(Strip(RemoveColors(style, 1)), 1))
            IN IF Len(rest) > 0 THEN CanonicalColor \o <<SEMI, SP>> \o rest ELSE CanonicalColor

\* re.sub(r'<span\b([^>]*?)\bstyle="([^"]*)"([^>]*)>', repl_double, text); the
\* style attribute of an open tag is SPANSTYLE, style lexemes, ATTREND
RECURSIVE NormalizeGraySpanStyles(_)
NormalizeGraySpanStyles(text) ==
    LET StyleEnd(k) == LET q == FindIn(text, k + 1, {QT, ATTREND, SPANSTYLE})
                       IN IF text[k] = SPANSTYLE /\ q <= Len(text) /\ text[q] = ATTREND THEN q ELSE 0
        Sub(m) == IF m[2] = 0 THEN text
                  ELSE SubSeq(text, 1, m[1]) \o NormalizeStyle(SubSeq(text, m[1] + 1, m[2] - 1)) \o <<ATTREND>>
                       \o NormalizeGraySpanStyles(SubSeq(text, m[2] + 1, Len(text)))
    IN Sub(FirstHit({<<k, StyleEnd(k)>> : k \in 1..Len(text)}, Len(text)))

\* the open tag names a gray colour: color\s*:\s*#c2c2c2\b or color\s*:\s*rgb\(194,194,194\)
HasGrayColor(tag) ==
    \E k \in 1..Len(tag) :
        /\ tag[k] = COLORKEY
        /\ LET j == SkipSpaces(tag, k + 1)
           IN /\ j <= Len(tag)
              /\ \/ tag[j] \in {RGBGRAY, RGBTIGHT}
                 \/ tag[j] \in {HEXUP, HEXLOW} /\ ~(j < Len(tag) /\ StartsWord(tag[j + 1]))

\* span_html.lower().startswith('<span')
StartsSpan(s) == Len(s) > 0 /\ s[1] \in {SPANSTYLE, "<span>"}
\* span_html.endswith('</span>')
EndsSpan(s) == Len(s) > 0 /\ s[Len(s)] = SPANCLOSE

\* _gray_span_open_tag; <<>> stands for None
GraySpanOpenTag(span) ==
    LET g == FindGt(span, 1)
    IN IF g > Len(span) THEN <<>>
       ELSE IF StartsSpan(span) /\ HasGrayColor(SubSeq(span, 1, g)) THEN SubSeq(span, 1, g)
       ELSE <<>>

\* _wrap_gray_span
WrapGraySpan(inner) == <<SPANSTYLE>> \o CanonicalColor \o <<ATTREND>> \o inner \o <<SPANCLOSE>>

----------------------------------------------------------------------------
(* _italicize_current_terms *)

\* number of characters of a lexeme that is a whole word, 0 for any other lexeme
WordLen(c) ==
    IF c \in WordChars THEN 1
    ELSE IF c = PA THEN 2
    ELSE IF c \in {ORDET, "ordet"} THEN 5
    ELSE IF c = ANVANDS THEN 7
    ELSE 0

\* no word boundary asked for
AnyPlace(s, p) == TRUE

\* \b between s[p - 1] and s[p]
Boundary(s, p) == (p > 1 /\ EndsWord(s[p - 1])) # (p <= Len(s) /\ StartsWord(s[p]))

\* \w{0,3}, greedy: the index after the longest run of at most budget word characters
RECURSIVE WordTail(_, _, _)
WordTail(s, p, budget) ==
    IF p <= Len(s) /\ WordLen(s[p]) > 0 /\ WordLen(s[p]) <= budget
    THEN WordTail(s, p + 1, budget - WordLen(s[p]))
    ELSE p

MaxSuffix == 3

\* (?<!\bW\s) at index i, W one of en, ett, att
NotAfterWord(s, i, w) ==
    ~ /\ i - Len(w) - 1 >= 1
      /\ IsSpace(s[i - 1])
      /\ MatchAtI(s, i - Len(w) - 1, w)
      /\ Boundary(s, i - Len(w) - 1)

\* a single-word pattern without lookbehind
NoLookbehind(s, i, article) == TRUE

\* the article's lookbehind in front of a single-word pattern
ArticleAllows(s, i, article) ==
    IF article = "att" THEN NotAfterWord(s, i, <<"e", "n">>) /\ NotAfterWord(s, i, <<"e", "t", "t">>)
    ELSE IF article \in {"en", "ett"} THEN NotAfterWord(s, i, <<"a", "t", "t">>)
    ELSE TRUE

\* index of the last lexeme of the pattern's match at i, 0 when it does not match there
TermMatchEnd(s, i, t, article) ==
    LET e == i + Len(t.term) - 1
    IN IF ~MatchAtI(s, i, t.term) THEN 0
       ELSE IF \E k \in 1..Len(t.term) : t.term[k] = SP
            THEN IF (i > 1 /\ EndsWord(s[i - 1])) \/ (e < Len(s) /\ StartsWord(s[e + 1])) THEN 0 ELSE e
       ELSE IF ~(ArticleAllows(s, i, article) /\ Boundary(s, i)) THEN 0
       ELSE IF t.suffix
            THEN LET q == WordTail(s, e + 1, MaxSuffix)
                 IN IF Boundary(s, q) THEN q - 1 ELSE IF Boundary(s, e + 1) THEN e ELSE 0
       ELSE IF Boundary(s, e + 1) THEN e ELSE 0

\* re.sub(pattern, lambda m: f'<i>{m.group(0)}</i>', s, flags=re.IGNORECASE), from index i
RECURSIVE TermSub(_, _, _, _)
TermSub(s, i, t, article) ==
    LET Replace(m) == IF m[1] > Len(s) THEN SubSeq(s, i, Len(s))
                      ELSE SubSeq(s, i, m[1] - 1) \o <<IOPEN>> \o SubSeq(s, m[1], m[2]) \o <<ICLOSE>> \o TermSub(s, m[2] + 1, t, article)
    IN Replace(FirstHit({<<k, TermMatchEnd(s, k, t, article)>> : k \in i..Len(s)}, Len(s)))

\* index of the ")" closing a match of pa_paren_re at i, 0 when it does not match there
PaParenEnd(s, i) ==
    LET j == SkipSpaces(s, i + 1)
        c == FindIn(s, j + 1, {")"})
    IN IF s[i] = "(" /\ j <= Len(s) /\ s[j] = PA /\ ~(j < Len(s) /\ StartsWord(s[j + 1])) /\ c <= Len(s)
       THEN c ELSE 0

\* do_sub: the pattern is applied to the chunks between the "(pa ...)" parentheticals
RECURSIVE DoSubFrom(_, _, _, _)
DoSubFrom(s, from, t, article) ==
    LET Emit(r) == IF r.k > Len(s) THEN r.chunk
                   ELSE r.chunk \o SubSeq(s, r.k, r.e) \o DoSubFrom(s, r.e + 1, t, article)
    IN Emit(LET m == FirstHit({<<k, PaParenEnd(s, k)>> : k \in from..Len(s)}, Len(s))
            IN [k |-> m[1], e |-> m[2], chunk |-> TermSub(SubSeq(s, from, m[1] - 1), 1, t, article)])

DoSub(s, t, article) == DoSubFrom(s, 1, t, article)

\* apply_inside_quotes from index i: quote is "" for None
RECURSIVE ApplyInsideQuotes(_, _, _, _, _)
ApplyInsideQuotes(s, i, quote, t, article) ==
    LET Emit(r) == IF r.k > Len(s) THEN r.buf
                   ELSE r.buf \o <<s[r.k]>> \o ApplyInsideQuotes(s, r.k + 1, IF quote = "" THEN s[r.k] ELSE "", t, article)
    IN Emit(LET m == FirstHit({<<k, 1>> : k \in {x \in i..Len(s) : IF quote = "" THEN s[x] \in {QT, SQ} ELSE s[x] = quote}}, Len(s))
            IN [k |-> m[1], buf |-> IF quote = "" THEN SubSeq(s, i, m[1] - 1) ELSE DoSub(SubSeq(s, i, m[1] - 1), t, article)])

\* what apply_outside_i does to a piece that is outside <i>
SubPiece(sub, t, article) ==
    IF article = "att" THEN ApplyInsideQuotes(sub, 1, "", t, article) ELSE DoSub(sub, t, article)

\* apply_outside_i from index i: the pieces between <i> and </i> tags, in_i_local tracked across them
RECURSIVE ApplyOutsideI(_, _, _, _, _)
ApplyOutsideI(s, i, inI, t, article) ==
    LET Emit(r) == IF r.k > Len(s) THEN r.piece
                   ELSE r.piece \o <<s[r.k]>> \o ApplyOutsideI(s, r.k + 1, s[r.k] = IOPEN, t, article)
    IN Emit(LET m == FirstHit({<<k, 1>> : k \in {x \in i..Len(s) : s[x] \in {IOPEN, ICLOSE}}}, Len(s))
            IN [k |-> m[1], piece |-> IF inI \/ m[1] = i THEN SubSeq(s, i, m[1] - 1) ELSE SubPiece(SubSeq(s, i, m[1] - 1), t, article)])

\* for term, allow_suffix in self._italic_terms: text_part = apply_outside_i(text_part, pattern)
RECURSIVE ApplyTerms(_, _, _)
ApplyTerms(part, terms, article) ==
    IF Len(terms) = 0 THEN part
    ELSE ApplyTerms(ApplyOutsideI(part, 1, FALSE, Head(terms), article), Tail(terms), article)

\* index of the last lexeme of the tag <[^>]+> that starts at i, 0 when none starts there
TagEnd(s, i) ==
    IF ~HasLt(s[i]) THEN 0
    ELSE IF HasGt(s[i]) THEN i
    ELSE LET j == FindGt(s, i + 1)
         IN IF j > Len(s) \/ (s[i] = "<" /\ j = i + 1 /\ s[j] = ">") THEN 0 ELSE j

\* part.lower().startswith('<i') for a tag
OpensItalic(c) == c \in {IOPEN, IMG}
\* part.lower().startswith('</i') for a tag
ClosesItalic(c) == c = ICLOSE

\* the loop over tag_re.split(html_text), from index i
RECURSIVE ItalicizeFrom(_, _, _, _, _)
ItalicizeFrom(s, i, inI, terms, article) ==
    LET Emit(r) == IF r.k > Len(s) THEN r.part
                   ELSE r.part \o SubSeq(s, r.k, r.e)
                        \o ItalicizeFrom(s, r.e + 1, IF OpensItalic(s[r.k]) THEN TRUE ELSE IF ClosesItalic(s[r.k]) THEN FALSE ELSE inI, terms, article)
    IN Emit(LET m == FirstHit({<<k, TagEnd(s, k)>> : k \in i..Len(s)}, Len(s))
            IN [k |-> m[1], e |-> m[2], part |-> IF inI THEN SubSeq(s, i, m[1] - 1) ELSE ApplyTerms(SubSeq(s, i, m[1] - 1), terms, article)])

ItalicizeCurrentTerms(text, terms, article) ==
    IF Len(terms) = 0 THEN text ELSE ItalicizeFrom(text, 1, FALSE, terms, article)

----------------------------------------------------------------------------
(* line helpers *)

\* line.startswith(('"', "'"))
StartsQuote(s) == Len(s) > 0 /\ s[1] \in {QT, SQ}
\* self.example_sentence_pattern.match(line): ^"
StartsDQuote(s) == Len(s) > 0 /\ s[1] = QT

\* _remove_wrapping_parentheses: ^\(([^)]+)\)$
RemoveWrappingParentheses(line) ==
    IF /\ Len(line) >= 3
       /\ line[1] = "("
       /\ line[Len(line)] = ")"
       /\ \A k \in 2..(Len(line) - 1) : line[k] # ")"
    THEN SubSeq(line, 2, Len(line) - 1)
    ELSE line

\* re.sub(q + r'\s*' + c + r'\s*$', q, s) for a quote q and c one of "," and ")"
TrailSub(s, q, c) ==
    LET j == RStripTo(s, Len(s))
        k == RStripTo(s, j - 1)
    IN IF j >= 2 /\ s[j] = c /\ k >= 1 /\ s[k] = q THEN SubSeq(s, 1, k) ELSE s

\* re.sub(q + r'\s*,\s*' + q, q + '<br>' + q, s)
RECURSIVE MidSub(_, _, _)
MidSub(s, i, q) ==
    LET CommaEnd(x) == LET j == SkipSpaces(s, x + 1)
                           k == SkipSpaces(s, j + 1)
                       IN IF s[x] = q /\ j <= Len(s) /\ s[j] = "," /\ k <= Len(s) /\ s[k] = q THEN k + 1 ELSE 0
        Sub(m) == IF m[2] = 0 THEN SubSeq(s, i, Len(s))
                  ELSE SubSeq(s, i, m[1] - 1) \o <<q, BR, q>> \o MidSub(s, m[2], q)
    IN Sub(FirstHit({<<x, CommaEnd(x)>> : x \in i..Len(s)}, Len(s)))

\* the body of the loop of _normalize_quoted_example_lines, for one part
NormalizeQuotedPart(part) ==
    LET stripped == Strip(part)
        unwrapped == RemoveWrappingParentheses(stripped)
        normalized == IF Len(stripped) > 0 /\ stripped[1] = "(" /\ stripped[Len(stripped)] = ")" /\ StartsQuote(Strip(unwrapped))
                      THEN unwrapped ELSE part
    IN IF Len(stripped) = 0 THEN part
       ELSE IF StartsQuote(Strip(normalized))
            THEN MidSub(MidSub(TrailSub(TrailSub(TrailSub(TrailSub(normalized, QT, ","), SQ, ","), QT, ")"), SQ, ")"), 1, QT), 1, SQ)
       ELSE normalized

\* _normalize_quoted_example_lines
NormalizeQuotedExampleLines(text) ==
    LET parts == SplitBr(text)
    IN Join([k \in 1..Len(parts) |-> NormalizeQuotedPart(parts[k])], <<BR>>)

\* ^\(en [^)]+: or ^\(en [^)]+\) for the word w
ArticleCue(line, w) ==
    LET a == Len(w) + 3
    IN /\ MatchAtI(line, 1, <<"(">> \o w \o <<SP>>)
       /\ \E k \in a..Len(line) :
            /\ \A x \in a..(k - 1) : line[x] # ")"
            /\ \/ k > a /\ line[k] \in {")", ":"}
               \/ line[k] \in {CUEBEST, CUEPL, COLORKEY}

\* no line taken for a synonym/reference note
NoNote(line) == FALSE

\* _is_synonym_or_extra
IsSynonymOrExtra(line) ==
    \/ MatchAtI(line, 1, <<"(", "s", "y", "n", ":">>)
    \/ MatchAtI(line, 1, <<"(", CUEBEST>>)
    \/ MatchAtI(line, 1, <<"(", CUEPL>>)
    \/ MatchAtI(line, 1, <<"(", PA>>)
    \/ ArticleCue(line, <<"e", "n">>)
    \/ ArticleCue(line, <<"e", "t", "t">>)

\* _apply_color_styling
ApplyColorStyling(line, isGray, terms, article) ==
    LET Styled(open) ==
            LET spanned == StartsSpan(line) /\ EndsSpan(line) /\ Len(open) > 0
                Wrap(inner) == IF spanned THEN open \o inner \o <<SPANCLOSE>> ELSE WrapGraySpan(inner)
            IN Wrap(ItalicizeCurrentTerms(
                        NormalizeQuotedExampleLines(IF spanned THEN SubSeq(line, Len(open) + 1, Len(line) - 1) ELSE line),
                        terms, article))
    IN IF ~isGray THEN line ELSE Styled(GraySpanOpenTag(line))

\* _process_line
ProcessLine(line, isMain, terms, article) ==
    LET \* the arguments of the call of _apply_color_styling that the line's branch makes
        Branch(unwrapped) ==
            IF StartsSpan(line) /\ EndsSpan(line) /\ Len(GraySpanOpenTag(line)) > 0
            THEN [line |-> line, isGray |-> TRUE]
            ELSE IF StartsDQuote(line)
                 THEN [line |-> NormalizeQuotedExampleLines(line), isGray |-> TRUE]
            ELSE IF unwrapped # line /\ StartsDQuote(Strip(unwrapped))
                 THEN [line |-> NormalizeQuotedExampleLines(unwrapped), isGray |-> TRUE]
            ELSE [line |-> line, isGray |-> IsSynonymOrExtra(line)]
        Call(b) == ApplyColorStyling(b.line, b.isGray, terms, article)
    IN Call(Branch(RemoveWrappingParentheses(line)))

----------------------------------------------------------------------------
(* _process_content_outside_spans *)

\* the "(" of the match of ^(.*)\(\s*(["\t'].*)$ : the last "(" followed by a quote, 0 when none
LastParenQuote(line, p) ==
    LET Opens(x) == LET q == SkipSpaces(line, x + 1)
                    IN IF line[x] = "(" /\ q <= Len(line) /\ line[q] \in {QT, SQ} THEN x ELSE 0
    IN FirstHit({<<p - x, Opens(x)>> : x \in 1..p}, p)[2]

\* the absorption loop left out: no following line joins the group
AbsorbNone(lines, nextIdx) == nextIdx

\* the while loop that absorbs the quote lines after idx: the value of next_idx after it
RECURSIVE AbsorbEnd(_, _)
AbsorbEnd(lines, nextIdx) ==
    IF nextIdx > Len(lines) THEN nextIdx
    ELSE LET nxt == Strip(lines[nextIdx])
         IN IF Len(nxt) = 0 \/ ~StartsQuote(nxt) THEN nextIdx
            ELSE IF nxt[Len(nxt)] = ")" THEN nextIdx + 1
            ELSE AbsorbEnd(lines, nextIdx + 1)

\* examples, before _normalize_quoted_example_lines
ParenExamples(exampleLines) ==
    LET joined == Strip(Join(exampleLines, <<BR>>))
        opened == IF Len(joined) > 0 /\ joined[1] = "(" THEN LStrip(Tail(joined)) ELSE joined
        r == RStrip(opened)
    IN IF Len(r) > 0 /\ r[Len(r)] = ")" THEN RStrip(SubSeq(r, 1, Len(r) - 1)) ELSE opened

\* '(t.ex. "' in line.lower()
HasTexQuote(line) ==
    \E i \in 1..Len(line) : i + 3 <= Len(line) /\ line[i] = "(" /\ Lower(line[i + 1]) = TEX /\ line[i + 2] = SP /\ line[i + 3] = QT

\* index of the closing quote of a match of \(t\.ex\.\s*"([^"]*)"\) at i, 0 when it does not match there
TexClauseQuote(line, i) ==
    LET j == SkipSpaces(line, i + 2)
        c == FindIn(line, j + 1, {QT, ATTREND, SPANSTYLE})
    IN IF /\ i + 1 <= Len(line)
          /\ line[i] = "("
          /\ Lower(line[i + 1]) = TEX
          /\ j <= Len(line)
          /\ line[j] = QT
          /\ c < Len(line)
          /\ line[c] = QT
          /\ line[c + 1] = ")"
       THEN c ELSE 0

\* first index >= i where the clause matches, 0 when none
FirstTexClause(line, i) == FirstHit({<<x, TexClauseQuote(line, x)>> : x \in i..Len(line)}, -1)[1]

\* the "(" of the match of ^\s*(.*?)\(\s*t\.ex\. : the first "(" followed by t.ex., 0 when none
FirstParenTex(line, p) ==
    LET Opens(x) == LET t == SkipSpaces(line, x + 1)
                    IN IF line[x] = "(" /\ t <= Len(line) /\ Lower(line[t]) = TEX THEN 1 ELSE 0
    IN FirstHit({<<x, Opens(x)>> : x \in p..Len(line)}, -1)[1]

\* re.sub(r'\(t\.ex\.\s*"', '"', line)
RECURSIVE TexQuoteSub(_, _)
TexQuoteSub(line, i) ==
    LET QuoteEnd(x) == LET j == SkipSpaces(line, x + 2)
                       IN IF line[x] = "(" /\ Lower(line[x + 1]) = TEX /\ j <= Len(line) /\ line[j] = QT THEN j + 1 ELSE 0
        Sub(m) == IF m[2] = 0 THEN SubSeq(line, i, Len(line))
                  ELSE SubSeq(line, i, m[1] - 1) \o <<QT>> \o TexQuoteSub(line, m[2])
    IN Sub(FirstHit({<<x, QuoteEnd(x)>> : x \in i..(Len(line) - 1)}, Len(line)))

\* re.sub(r'\)$', '', line)
DropFinalParen(line) ==
    IF Len(line) > 0 /\ line[Len(line)] = ")" THEN SubSeq(line, 1, Len(line) - 1) ELSE line

\* no line taken for a usage note
NoUsageNote(line) == FALSE

\* re.match(r'^ordet\s+anv\w*\b', next_line, flags=re.IGNORECASE)
IsUsageNote(line) ==
    /\ Len(line) >= 3
    /\ Lower(line[1]) = "ordet"
    /\ IsSpace(line[2])
    /\ LET j == SkipSpaces(line, 2) IN j <= Len(line) /\ line[j] = ANVANDS

\* lines[idx].strip() when idx < len(lines), else ''
NextLine(lines, idx) == IF idx <= Len(lines) THEN Strip(lines[idx]) ELSE <<>>

\* one pass of the while loop over lines: what it appends to processed_lines, each entry with the
\* styling its branch gives it ("gray" for _apply_color_styling(.., True), "line" for _process_line,
\* "plain" for an entry appended as it is), and the value idx has after the pass
LineStep(lines, idx) ==
    LET line == Strip(lines[idx])
        p == LastParenQuote(line, Len(line))
        defPart == IF p > 0 THEN RStrip(SubSeq(line, 1, p - 1)) ELSE <<>>
        nextLine == NextLine(lines, idx + 1)
        plain(x) == [text |-> x, styling |-> "plain"]
        gray(x) == [text |-> x, styling |-> "gray"]
        asLine(x) == [text |-> x, styling |-> "line"]
        pass(appended, n) == [appended |-> appended, idx |-> n]
    IN
    IF Len(line) = 0 THEN pass(<<plain(line)>>, idx + 1)
    ELSE IF p > 0 /\ Len(defPart) > 0
    THEN LET nextIdx == AbsorbEnd(lines, idx + 1)
             exampleLines == <<Strip(SubSeq(line, SkipSpaces(line, p + 1), Len(line)))>> \o [k \in 1..(nextIdx - idx - 1) |-> Strip(lines[idx + k])]
         IN pass(<<plain(defPart), gray(NormalizeQuotedExampleLines(ParenExamples(exampleLines)))>>, nextIdx)
    ELSE IF HasTexQuote(line)
    THEN LET i1 == FirstTexClause(line, 1)
         IN IF i1 > 0
            THEN LET c1 == TexClauseQuote(line, i1)
                     def1 == Strip(SubSeq(line, 1, i1 - 1))
                     inner == SubSeq(line, SkipSpaces(line, i1 + 2), c1)
                     i2 == FirstTexClause(line, c1 + 2)
                     remaining == Strip(SubSeq(line, c1 + 2, IF i2 > 0 THEN i2 - 1 ELSE Len(line)))
                     head == IF Len(def1) > 0 THEN <<plain(def1)>> ELSE <<>>
                 IN IF Len(nextLine) > 0 /\ IsSynonymOrExtra(nextLine)
                    THEN pass(head \o <<gray(inner \o <<BR>> \o nextLine)>>, idx + 2)
                    ELSE pass(head \o <<gray(inner)>> \o (IF Len(remaining) > 0 THEN <<gray(remaining)>> ELSE <<>>), idx + 1)
            ELSE LET p2 == FirstParenTex(line, 1)
                 IN IF p2 > 0 /\ line[Len(line)] = ")" /\ SkipSpaces(line, p2 + 1) < Len(line)
                    THEN LET def2 == Strip(SubSeq(line, 1, p2 - 1))
                             examplePart == Strip(SubSeq(line, SkipSpaces(line, p2 + 1) + 1, Len(line) - 1))
                             head == IF Len(def2) > 0 THEN <<plain(def2)>> ELSE <<>>
                         IN IF Len(nextLine) > 0 /\ IsSynonymOrExtra(nextLine)
                            THEN pass(head \o <<gray(examplePart \o <<BR>> \o nextLine)>>, idx + 2)
                            ELSE pass(head \o <<gray(examplePart)>>, idx + 1)
                    ELSE pass(<<asLine(DropFinalParen(TexQuoteSub(line, 1)))>>, idx + 1)
    ELSE IF Len(line) >= 3 /\ Lower(line[1]) = TEX /\ line[2] = SP /\ line[3] = QT
    THEN pass(<<gray(Strip(SubSeq(line, 3, Len(line))))>>, idx + 1)
    ELSE IF StartsDQuote(line) /\ idx < Len(lines) /\ Len(nextLine) > 0 /\ IsUsageNote(nextLine)
    THEN pass(<<gray(RemoveWrappingParentheses(line) \o <<BR>> \o nextLine)>>, idx + 2)
    ELSE pass(<<asLine(line)>>, idx + 1)

\* the while loop over lines: the list processed_lines
RECURSIVE ProcessLines(_, _, _, _, _)
ProcessLines(lines, idx, isMain, terms, article) ==
    IF idx > Len(lines) THEN <<>>
    ELSE LET Styled(entry) ==
                 IF entry.styling = "line" THEN ProcessLine(entry.text, isMain, terms, article)
                 ELSE ApplyColorStyling(entry.text, entry.styling = "gray", terms, article)
             Extend(step) ==
                 [k \in 1..Len(step.appended) |-> Styled(step.appended[k])]
                 \o ProcessLines(lines, step.idx, isMain, terms, article)
         IN Extend(LineStep(lines, idx))

ProcessContentOutsideSpans(content, isMain, terms, article) ==
    Join(ProcessLines(SplitBr(content), 1, isMain, terms, article), <<BR>>)

----------------------------------------------------------------------------
(* _maybe_split_gray_span_on_double_break and _clean_definition *)

\* index of the first <br><br> at or after i, 0 when none
RECURSIVE FirstDoubleBreak(_, _)
FirstDoubleBreak(s, i) ==
    IF i >= Len(s) THEN 0
    ELSE IF s[i] = BR /\ s[i + 1] = BR THEN i
    ELSE FirstDoubleBreak(s, i + 1)

\* the span returned as it is, wherever it stands
KeepSpan(span, allowSplit) == span

MaybeSplitGraySpanOnDoubleBreak(span, allowSplit) ==
    LET Split(open) ==
            LET inner == SubSeq(span, Len(open) + 1, Len(span) - 1)
                d == FirstDoubleBreak(inner, 1)
                right == Strip(SubSeq(inner, d + 2, Len(inner)))
            IN IF ~allowSplit \/ Len(open) = 0 \/ ~EndsSpan(span) \/ d = 0 THEN span
               ELSE IF ~(Len(right) > 0 /\ right[1] = "(") THEN span
               ELSE open \o Strip(SubSeq(inner, 1, d - 1)) \o <<SPANCLOSE, BR, BR>> \o open \o right \o <<SPANCLOSE>>
    IN Split(GraySpanOpenTag(span))

\* index of the ">" lexeme that ends the open tag <span\b[^>]*> starting at i, 0 when none starts there
SpanOpenEnd(s, i) ==
    IF s[i] = "<span>" THEN i
    ELSE IF s[i] = SPANSTYLE THEN (LET g == FindGt(s, i + 1) IN IF g <= Len(s) THEN g ELSE 0)
    ELSE 0

\* index of the </span> that ends the match of <span\b[^>]*>.*?</span> at i, 0 when it does not match there
SpanEnd(s, i) ==
    LET g == SpanOpenEnd(s, i)
        c == FindIn(s, g + 1, {SPANCLOSE})
    IN IF g > 0 /\ c <= Len(s) THEN c ELSE 0

\* re.sub(r'(<span\b[^>]*>)\s*t\.ex\.\s*("([^"]*)")\s*</span>', r'\1\2</span>', definition)
RECURSIVE TexInSpanSub(_, _)
TexInSpanSub(s, i) ==
    LET Match(k) ==
            LET g == SpanOpenEnd(s, k)
                t == SkipSpaces(s, g + 1)
                q1 == SkipSpaces(s, t + 1)
                q2 == FindIn(s, q1 + 1, {QT, ATTREND, SPANSTYLE})
                c == SkipSpaces(s, q2 + 1)
            IN IF /\ g > 0
                  /\ t <= Len(s)
                  /\ Lower(s[t]) = TEX
                  /\ q1 <= Len(s)
                  /\ s[q1] = QT
                  /\ q2 <= Len(s)
                  /\ s[q2] = QT
                  /\ c <= Len(s)
                  /\ s[c] = SPANCLOSE
               THEN <<k, c, g, q1, q2>>
               ELSE <<k, 0>>
        Sub(m) == IF m[2] = 0 THEN SubSeq(s, i, Len(s))
                  ELSE SubSeq(s, i, m[3]) \o SubSeq(s, m[4], m[5]) \o <<SPANCLOSE>> \o TexInSpanSub(s, m[2] + 1)
    IN Sub(FirstHit({Match(k) : k \in i..Len(s)}, Len(s)))

\* prefix_text = re.sub(r'(?:<br>)+', '', prefix).strip(); allow_split = bool(prefix_text)
AllowSplit(prefix) == \E k \in 1..Len(prefix) : prefix[k] # BR /\ ~IsSpace(prefix[k])

\* what _clean_definition appends for a token that is a span
CleanSpanToken(token, prefix, terms, article) ==
    LET Restyled(span, open) ==
            IF Len(open) > 0 /\ EndsSpan(span)
            THEN open \o ItalicizeCurrentTerms(NormalizeQuotedExampleLines(SubSeq(span, Len(open) + 1, Len(span) - 1)), terms, article) \o <<SPANCLOSE>>
            ELSE span
        Cleaned(span) == MaybeSplitGraySpanOnDoubleBreak(Restyled(span, GraySpanOpenTag(span)), AllowSplit(prefix))
    IN Cleaned(NormalizeGraySpanStyles(token))

\* the loop over span_re.split(definition); out is ''.join(out) so far, from the start of the pending text token
RECURSIVE CleanTokens(_, _, _, _, _, _, _)
CleanTokens(s, i, from, out, isMain, terms, article) ==
    LET \* the pending text token s[from..m[1]-1] ends at the end of s or in front of the next span s[m[1]..m[2]]
        m == FirstHit({<<k, SpanEnd(s, k)>> : k \in i..Len(s)}, Len(s))
        Flush(prefix) ==
            IF m[1] > Len(s) THEN prefix
            ELSE CleanTokens(s, m[2] + 1, m[2] + 1, prefix \o CleanSpanToken(SubSeq(s, m[1], m[2]), prefix, terms, article), isMain, terms, article)
    IN Flush(out \o (IF m[1] - 1 >= from THEN ProcessContentOutsideSpans(SubSeq(s, from, m[1] - 1), isMain, terms, article) ELSE <<>>))

\* _clean_definition
CleanDefinition(definition, isMain, terms, article) ==
    CleanTokens(NormalizeGraySpanStyles(TexInSpanSub(NormalizeGraySpanStyles(definition), 1)), 1, 1, <<>>, isMain, terms, article)

----------------------------------------------------------------------------
(* clean_card *)

DigitOf == <<"0", "1", "2", "3", "4", "5", "6", "7", "8", "9">>

\* str(n)
RECURSIVE Numeral(_)
Numeral(n) == IF n < 10 THEN <<DigitOf[n + 1]>> ELSE Numeral(n \div 10) \o <<DigitOf[(n % 10) + 1]>>

\* Step 3: cleaned_definitions
CleanEach(defs, terms, article) == [k \in 1..Len(defs) |-> CleanDefinition(defs[k], k = 1, terms, article)]

\* the segments numbered from 0
ReassembleFromZero(cleanedDefs, decodedBack) ==
    IF Len(cleanedDefs) > 1
    THEN Join([k \in 1..Len(cleanedDefs) |-> Numeral(k - 1) \o <<".", SP>> \o cleanedDefs[k]], <<BR, BR>>)
    ELSE IF Len(cleanedDefs) = 1 THEN cleanedDefs[1]
    ELSE decodedBack

\* Step 4: the back field
Reassemble(cleanedDefs, decodedBack) ==
    IF Len(cleanedDefs) > 1
    THEN Join([k \in 1..Len(cleanedDefs) |-> Numeral(k) \o <<".", SP>> \o cleanedDefs[k]], <<BR, BR>>)
    ELSE IF Len(cleanedDefs) = 1 THEN cleanedDefs[1]
    ELSE decodedBack

\* Step 5: the front field
FrontWithCount(decodedFront, defCount) ==
    IF defCount > 1 THEN StripCountTight(decodedFront) \o <<SP, "(">> \o Numeral(defCount) \o <<")">>
    ELSE decodedFront

\* the comparison made against the decoded fields
ChangedFlagDecoded(newFront, newBack, originalFront, originalBack) ==
    newFront # DecodeField(originalFront) \/ newBack # DecodeField(originalBack)

\* changed = (front != original_front) or (back != original_back)
ChangedFlag(newFront, newBack, originalFront, originalBack) ==
    newFront # originalFront \/ newBack # originalBack

\* clean_card up to the try block: Step 1 and _set_italic_terms_from_front
Begin ==
    /\ pc = "ready"
    /\ normFront' = DecodeField(front)
    /\ normBack' = DecodeField(back)
    /\ italicTerms' = TermsOf(DecodeField(front))
    /\ italicArticle' = ArticleOf(DecodeField(front))
    /\ pc' = "running"
    /\ UNCHANGED <<front, back, calls, outFront, outBack, changed, definitions, cleaned, peer, review>>

\* the italic context left as the call set it
FinallyKeep == UNCHANGED <<italicTerms, italicArticle>>

\* finally: self._italic_terms = []; self._italic_article = None
Finally ==
    /\ italicTerms' = <<>>
    /\ italicArticle' = ""

\* the try block of clean_card (Steps 2 to 5, the return) and its finally clause
Finish ==
    /\ pc = "running"
    /\ LET defs == ExtractDefinitions(normBack)
           cleanedDefs == CleanEach(defs, italicTerms, italicArticle)
           newBack == Reassemble(cleanedDefs, normBack)
           newFront == FrontWithCount(normFront, Len(defs))
       IN /\ definitions' = defs
          /\ cleaned' = cleanedDefs
          /\ outBack' = newBack
          /\ outFront' = newFront
          /\ changed' = ChangedFlag(newFront, newBack, front, back)
    /\ Finally
    /\ calls' = calls + 1
    /\ pc' = "returned"
    /\ UNCHANGED <<front, back, normFront, normBack, peer, review>>

\* an exception raised in the try block: the finally clause runs and the
\* exception leaves clean_card, which returns nothing
Abort ==
    /\ pc = "running"
    /\ Finally
    /\ calls' = calls + 1
    /\ pc' = "raised"
    /\ UNCHANGED <<front, back, outFront, outBack, changed, normFront, normBack, definitions, cleaned, peer, review>>

\* the back that clean_card(f, b) returns: Steps 1 to 4
CleanedBack(f, b) ==
    Reassemble(CleanEach(ExtractDefinitions(DecodeField(b)), TermsOf(DecodeField(f)), ArticleOf(DecodeField(f))), DecodeField(b))

\* the triple that clean_card(f, b) returns on a CardCleaner after __init__
FreshResult(f, b) ==
    LET defCount == Len(ExtractDefinitions(DecodeField(b)))
        newFront == FrontWithCount(DecodeField(f), defCount)
        newBack == CleanedBack(f, b)
    IN [front |-> newFront, back |-> newBack, changed |-> ChangedFlag(newFront, newBack, f, b)]

MaxCalls == 2

\* the caller passes the returned card to clean_card again
Again ==
    /\ pc = "returned"
    /\ calls < MaxCalls
    /\ front' = outFront
    /\ back' = outBack
    /\ pc' = "ready"
    /\ UNCHANGED <<calls, outFront, outBack, changed, normFront, normBack, definitions, cleaned, italicTerms, italicArticle, peer, review>>

Next == Begin \/ Finish \/ Again

\* no second thread
\* AnkiDeckCleaner.__init__: an empty cache; no review under way
\* (cache: <<>> stands for no entry of the deck, <<ids>> for the entry ids)
NoReview ==
    [pc |-> "idle", deck |-> <<>>, cache |-> <<>>, batchSize |-> 0, startFrom |-> 0, examined |-> <<>>,
     built |-> <<>>, result |-> [cards |-> <<>>, skipped_count |-> 0, total_cards |-> 0]]

NoPeer == [pc |-> "idle", front |-> <<>>, back |-> <<>>, normFront |-> <<>>, normBack |-> <<>>, outFront |-> <<>>, outBack |-> <<>>, changed |-> FALSE]

\* the second thread's call up to the try block: Step 1 and _set_italic_terms_from_front
PeerBegin ==
    /\ peer.pc = "ready"
    /\ peer' = [peer EXCEPT !.normFront = DecodeField(peer.front), !.normBack = DecodeField(peer.back), !.pc = "running"]
    /\ italicTerms' = TermsOf(DecodeField(peer.front))
    /\ italicArticle' = ArticleOf(DecodeField(peer.front))
    /\ UNCHANGED <<front, back, pc, calls, outFront, outBack, changed, normFront, normBack, definitions, cleaned, review>>

\* the second thread's try block and finally clause
PeerFinish ==
    /\ peer.pc = "running"
    /\ LET defs == ExtractDefinitions(peer.normBack)
           newBack == Reassemble(CleanEach(defs, italicTerms, italicArticle), peer.normBack)
           newFront == FrontWithCount(peer.normFront, Len(defs))
       IN peer' = [peer EXCEPT !.outFront = newFront, !.outBack = newBack,
                               !.changed = ChangedFlag(newFront, newBack, peer.front, peer.back),
                               !.pc = "returned"]
    /\ Finally
    /\ calls' = calls + 1
    /\ UNCHANGED <<front, back, pc, outFront, outBack, changed, normFront, normBack, definitions, cleaned, review>>

\* a CardCleaner after __init__, about to be called with (f, b)
InitWith(f, b) ==
    /\ front = f
    /\ back = b
    /\ pc = "ready"
    /\ calls = 0
    /\ outFront = <<>>
    /\ outBack = <<>>
    /\ changed = FALSE
    /\ normFront = <<>>
    /\ normBack = <<>>
    /\ definitions = <<>>
    /\ cleaned = <<>>
    /\ italicTerms = <<>>
    /\ italicArticle = ""
    /\ peer = NoPeer
    /\ review = NoReview

\* the concatenations of at most n pieces of P
RECURSIVE Concats(_, _)
Concats(P, n) ==
    IF n = 0 THEN {<<>>}
    ELSE LET prev == Concats(P, n - 1) IN prev \cup {b \o x : b \in prev, x \in P}

\* one call of clean_card, without a second call on its result
NextOnce == Begin \/ Finish

----------------------------------------------------------------------------
(* Pieces of cards *)

DefWord == <<"d">>
Headword == <<"s", "t", "a", "m">>
QuotedDef == <<QT, "d", QT>>
NumberOne == <<"1", ".", SP>>
BreakNumberTwo == <<BR, BR, "2", ".", SP>>
CountTwo == <<SP, "(", "2", ")">>
SynNote == <<"(", "s", "y", "n", ":", SP, "d", ")">>
GlossNote == <<"(", "e", "n", SP, "d", ":", SP, "d", ")">>
EmphasizedExample == <<QT, "d", SP, IOPEN>> \o Headword \o <<ICLOSE, QT>>

GrayHexTag == <<SPANSTYLE, COLORKEY, SP, HEXUP, ATTREND>>
GrayRgbTag == <<SPANSTYLE, COLORKEY, SP, RGBGRAY, ATTREND>>
GrayRgbSemiTag == <<SPANSTYLE, COLORKEY, SP, RGBGRAY, SEMI, ATTREND>>
GrayTags == {GrayHexTag, GrayRgbTag, GrayRgbSemiTag}

----------------------------------------------------------------------------
(* Cards for segment extraction and reassembly *)

SegPieces == {DefWord, QuotedDef, <<BR>>, NumberOne, BreakNumberTwo, <<BR, ORSEP, SP>>}
MaxSegPieces == 5

InitSeg == \E b \in Concats(SegPieces, MaxSegPieces) : InitWith(DefWord, b)

SpecSeg == InitSeg /\ [][NextOnce]_vars

----------------------------------------------------------------------------
(* Cards that are cleaned, and their result cleaned again: fronts with a    *)
(* count, backs of several segments, gray spans with blocks after <br><br>  *)

SegFronts == {DefWord, DefWord \o CountTwo, DefWord \o CountTwo \o <<SP>>, DefWord \o CountTwo \o <<SP, SOUND>>}
MaxTwicePieces == 3

BlockPieces == {<<BR, BR>> \o SynNote, <<BR>> \o SynNote, <<BR, BR>> \o QuotedDef}
MaxBlocks == 3

BlockBacks == {DefWord \o <<BR>> \o GrayRgbTag \o QuotedDef \o x \o <<SPANCLOSE>> : x \in Concats(BlockPieces, MaxBlocks)}

InitTwice ==
    \/ \E f \in SegFronts, b \in Concats(SegPieces, MaxTwicePieces) : InitWith(f, b)
    \/ \E b \in BlockBacks : InitWith(DefWord, b)

SpecTwice == InitTwice /\ [][Next]_vars

----------------------------------------------------------------------------
(* Cards with entities, non-breaking spaces and soft hyphens *)

NormPieces == {DefWord, <<BR>>, <<NBSP>>, <<SHY>>, <<AMP, "nbsp;">>, <<AMP, "shy;">>, <<AMP, "amp;">>, <<"nbsp;">>, <<"lt;">>}
NormFronts == {DefWord, <<"d", NBSP, "d", AMP, "shy;", "d">>}
MaxNormPieces == 4

InitNorm == \E f \in NormFronts, b \in Concats(NormPieces, MaxNormPieces) : InitWith(f, b)

SpecNorm == InitNorm /\ [][NextOnce]_vars

----------------------------------------------------------------------------
(* Cards whose back is one styled span, over the style attributes *)

StylePieces == {<<COLORKEY, SP>>, <<HEXUP>>, <<HEXLOW>>, <<RGBGRAY>>, <<RGBTIGHT>>, <<RED>>, <<SEMI>>, <<FONTDECL>>, <<BGPREFIX>>}
MaxStylePieces == 4

StyledBack(style) == <<SPANSTYLE>> \o style \o <<ATTREND>> \o QuotedDef \o <<SPANCLOSE>>

InitStyle == \E st \in Concats(StylePieces, MaxStylePieces) : InitWith(DefWord, StyledBack(st))

SpecStyle == InitStyle /\ [][NextOnce]_vars

----------------------------------------------------------------------------
(* Cards with emphasis tags *)

ItalicPieces == {<<IOPEN>>, <<ICLOSE>>, <<BR>>, <<QT>>, <<SP>>, Headword, DefWord}
ItalicFronts == {Headword, <<"e", "n", SP>> \o Headword, <<"a", "t", "t", SP>> \o Headword}
MaxItalicPieces == 4

InitItalic == \E f \in ItalicFronts, b \in Concats(ItalicPieces, MaxItalicPieces) : InitWith(f, b)

SpecItalic == InitItalic /\ [][NextOnce]_vars

----------------------------------------------------------------------------
(* Cards in canonical form: definition text, then gray spans whose lines    *)
(* are quoted examples and parenthetical notes, the headword emphasized     *)

CanonLines == {EmphasizedExample, QuotedDef, SynNote, GlossNote}
MaxCanonLines == 2

\* the texts of 1 to n canonical lines
RECURSIVE CanonInners(_)
CanonInners(n) ==
    IF n = 1 THEN CanonLines
    ELSE LET prev == CanonInners(n - 1) IN prev \cup {x \o <<BR>> \o l : x \in prev, l \in CanonLines}

CanonSpans(tag) == {tag \o x \o <<SPANCLOSE>> : x \in CanonInners(MaxCanonLines)}

\* definition text, then a gray span of several lines, then possibly a gray span of one line
CanonBacks ==
    UNION {{DefWord \o <<BR>> \o s1 : s1 \in CanonSpans(tag)}
           \cup {DefWord \o <<BR>> \o s1 \o sep \o tag \o l \o <<SPANCLOSE>> : s1 \in CanonSpans(tag), l \in CanonLines, sep \in {<<BR>>, <<BR, BR>>}} : tag \in GrayTags}

\* one definition with one gray span of one line
CanonShort == {DefWord \o <<BR>> \o tag \o l \o <<SPANCLOSE>> : tag \in GrayTags, l \in CanonLines}

\* two numbered definitions
CanonNumbered == {NumberOne \o d1 \o BreakNumberTwo \o d2 : d1 \in CanonShort, d2 \in CanonShort}

CanonFronts == {Headword, <<"e", "n", SP>> \o Headword}

InitCanon ==
    \/ \E f \in CanonFronts, b \in CanonBacks : InitWith(f, b)
    \/ \E f \in CanonFronts, b \in CanonNumbered : InitWith(f \o CountTwo, b)

SpecCanon == InitCanon /\ [][NextOnce]_vars

----------------------------------------------------------------------------
(* Cards whose example text holds quotation marks, emphasis, other tags    *)
(* and "(pa ...)" parentheticals: the text as a line of its own after the  *)
(* definition, and as the content of a gray span                           *)

EmphasizedPhrase == <<IOPEN>> \o Headword \o <<SP, "d", ICLOSE>>
PaOpen == <<"(", PA, SP>>

ExamplePieces == {<<QT>>, Headword, EmphasizedPhrase, <<IMG>>, PaOpen, <<")">>}
MaxExamplePieces == 4

ExampleBacks ==
    UNION {{DefWord \o <<BR>> \o x, DefWord \o <<BR>> \o GrayRgbTag \o x \o <<SPANCLOSE>>} : x \in Concats(ExamplePieces, MaxExamplePieces)}

InitExample == \E f \in ItalicFronts, b \in ExampleBacks : InitWith(f, b)

SpecExample == InitExample /\ [][NextOnce]_vars

----------------------------------------------------------------------------
(* Cards whose front yields no headword: empty, white space, a sound       *)
(* marker, a count; the backs are those of the example cards and backs of  *)
(* two segments, numbered or separated by "Or,"                            *)

NoHeadFronts == {<<>>, <<SP>>, <<SOUND>>, <<"(", "2", ")">>, <<SOUND, SP, "(", "2", ")">>}

ShortExampleBacks == {DefWord \o <<BR>> \o x : x \in Concats(ExamplePieces \cup {<<QT>> \o Headword \o <<QT>>}, 1)}

TwoSegmentBacks ==
    {NumberOne \o b1 \o BreakNumberTwo \o b2 : b1 \in ShortExampleBacks, b2 \in ShortExampleBacks}
    \cup {b1 \o <<BR, ORSEP, SP>> \o b2 : b1 \in ShortExampleBacks, b2 \in ShortExampleBacks}

InitNoHead == \E f \in NoHeadFronts, b \in ExampleBacks \cup TwoSegmentBacks : InitWith(f, b)

SpecNoHead == InitNoHead /\ [][NextOnce]_vars

----------------------------------------------------------------------------
(* Cards with an emphasis or styled-span open tag that is never closed: the *)
(* tag stands on one line of the segment, plain or inside a gray span, and  *)
(* quoted examples and notes follow on later lines                          *)

OpenTags == {<<IOPEN>>, GrayRgbTag}
LineParts == {<<>>, <<QT>>, DefWord, QuotedDef, <<QT>> \o Headword}
TagLines(tags) == {a \o t \o b : a \in LineParts, b \in LineParts, t \in tags}
LaterLines == {<<QT>> \o Headword \o <<QT>>, Headword, SynNote, <<QT>> \o DefWord \o <<SP>> \o Headword \o <<QT>>}
MaxLaterLines == 2

LaterBlocks == Concats({<<BR>> \o l : l \in LaterLines}, MaxLaterLines) \ {<<>>}

UnmatchedBacks ==
    {DefWord \o <<BR>> \o x \o y : x \in TagLines(OpenTags), y \in LaterBlocks}
    \cup {DefWord \o <<BR>> \o GrayRgbTag \o x \o y \o <<SPANCLOSE>> : x \in TagLines({<<IOPEN>>}), y \in LaterBlocks}

InitUnmatched == \E f \in {Headword, <<"e", "n", SP>> \o Headword}, b \in UnmatchedBacks : InitWith(f, b)

SpecUnmatched == InitUnmatched /\ [][NextOnce]_vars

----------------------------------------------------------------------------
(* Cards over the fronts: words of up to two parts, of one or of several    *)
(* words, with and without article, sound marker and count                  *)

HeadPieces == {<<"s", "t", "a">>, <<"m">>, <<"a">>, <<"A">>, <<SP>>, <<"e", "n", SP>>, <<SOUND>>, <<"(", "2", ")">>}
MaxHeadPieces == 3

InitHead == \E f \in Concats(HeadPieces, MaxHeadPieces) : InitWith(f, DefWord \o <<BR, QT>> \o Headword \o <<QT>>)

SpecHead == InitHead /\ [][NextOnce]_vars

----------------------------------------------------------------------------
(* The scenario card "Mogen" with two numbered definitions and their        *)
(* examples in the "t.ex." shorthand, and its variants: the front with a    *)
(* count and in an inflected form, the examples in each shorthand form      *)

Mogen == <<"M", "o", "g", "e", "n">>
Mogna == <<"M", "o", "g", "n", "a">>
Mature == <<"M", "a", "t", "u", "r", "e">>
Ripe == <<"R", "i", "p", "e">>
DetVarEtt == <<"D", "e", "t", SP, "v", "a", "r", SP, "e", "t", "t", SP>>
Beslut == <<SP, "b", "e", "s", "l", "u", "t">>
Tomater == <<SP, "t", "o", "m", "a", "t", "e", "r">>

ScenarioSentences ==
    {DetVarEtt \o <<"m", "o", "g", "e", "t">> \o Beslut,
     Mogna \o Tomater,
     DetVarEtt \o <<"m", "o", "g", "e", "n">> \o Beslut}

Quoted(x) == <<QT>> \o x \o <<QT>>
ShorthandForms(x) == {<<"(", TEX, SP>> \o Quoted(x) \o <<")">>, <<TEX, SP>> \o Quoted(x), Quoted(x)}
ScenarioExamples == UNION {ShorthandForms(x) : x \in ScenarioSentences}

ScenarioCard(x, y) == NumberOne \o Mature \o <<BR>> \o x \o BreakNumberTwo \o Ripe \o <<BR>> \o y
ScenarioFronts == {Mogen, Mogen \o <<SP, "(", "2", ")">>, Mogna}
ScenarioBack ==
    ScenarioCard(<<"(", TEX, SP>> \o Quoted(DetVarEtt \o <<"m", "o", "g", "e", "t">> \o Beslut) \o <<")">>,
                 <<"(", TEX, SP>> \o Quoted(Mogna \o Tomater) \o <<")">>)

InitScenario == \E f \in ScenarioFronts, x \in ScenarioExamples, y \in ScenarioExamples : InitWith(f, ScenarioCard(x, y))

SpecScenario == InitScenario /\ [][NextOnce]_vars

----------------------------------------------------------------------------
(* Cards whose examples are written in the "t.ex." shorthand: on a plain    *)
(* line, as a parenthesized clause, across several lines, and on the lines  *)
(* of a gray span                                                           *)

ShorthandSentences == {DefWord, Headword}
ShorthandPieces ==
    UNION {ShorthandForms(x) \cup {<<"(", TEX, SP>> \o Quoted(x), Quoted(x) \o <<")">>} : x \in ShorthandSentences}
MaxShorthandLines == 2

ShorthandLines == Concats({<<BR>> \o l : l \in ShorthandPieces}, MaxShorthandLines) \ {<<>>}

ShorthandBacks ==
    {DefWord \o y : y \in ShorthandLines}
    \cup {DefWord \o <<BR>> \o GrayRgbTag \o Tail(y) \o <<SPANCLOSE>> : y \in ShorthandLines}

InitShorthand == \E b \in ShorthandBacks : InitWith(Headword, b)

SpecShorthand == InitShorthand /\ [][NextOnce]_vars

----------------------------------------------------------------------------
(* Cards whose back is written in plain lines, outside any span: definition *)
(* text, quoted examples with and without a trailing comma or ")", notes,   *)
(* a definition with an opened quote group or a "t.ex." clause, the usage   *)
(* note and blank lines; and cards of two numbered segments of such lines   *)

UsageNote == <<ORDET, SP, ANVANDS, SP>> \o Headword
PlainLinePool ==
    {DefWord, Quoted(Headword), Quoted(Headword) \o <<",">>, Quoted(DefWord) \o <<")">>, SynNote,
     DefWord \o <<SP, "(">> \o Quoted(Headword), DefWord \o <<SP, "(", TEX, SP>> \o Quoted(Headword) \o <<")">>,
     DefWord \o <<SP, "(", TEX, SP>> \o Quoted(Headword) \o <<")", SP>> \o DefWord,
     DefWord \o <<SP, "(", TEX, SP>> \o Quoted(Headword) \o <<")", SP, "(", TEX, SP>> \o Quoted(DefWord) \o <<")">>,
     UsageNote, <<>>}
MaxPlainLines == 3

PlainTexts(n) == {Tail(y) : y \in Concats({<<BR>> \o l : l \in PlainLinePool}, n) \ {<<>>}}

PlainBacks ==
    PlainTexts(MaxPlainLines)
    \cup {NumberOne \o DefWord \o <<BR>> \o x \o BreakNumberTwo \o DefWord \o <<BR>> \o y :
            x \in PlainTexts(1) \ {<<>>}, y \in PlainTexts(1) \ {<<>>}}

InitPlain == \E b \in PlainBacks : InitWith(Headword, b)

SpecPlain == InitPlain /\ [][NextOnce]_vars

(* Backs whose lines form groups: a parenthesized quote group, a t.ex. clause
   before a note, a quote before the usage note *)
ParenLine == DefWord \o <<SP, "(">> \o Quoted(Headword)
TexLine == DefWord \o <<SP, "(", TEX, SP>> \o Quoted(Headword) \o <<")">>
GroupLinePool ==
    {DefWord, Quoted(Headword) \o <<",">>, Quoted(DefWord) \o <<")">>, SynNote, ParenLine, TexLine, UsageNote, <<>>}
MaxGroupLines == 3
GroupBacks == {Tail(y) : y \in Concats({<<BR>> \o l : l \in GroupLinePool}, MaxGroupLines) \ {<<>>}}
InitGroup == \E b \in GroupBacks : InitWith(Headword, b)
SpecGroup == InitGroup /\ [][NextOnce]_vars

(* Backs that end in a gray span of blocks, after nothing, after line breaks,
   after definition text or after another span, in the first or second segment *)
SplitPrefixes ==
    {<<>>, <<BR>>, DefWord \o <<BR>>, GrayRgbTag \o QuotedDef \o <<SPANCLOSE, BR>>,
     NumberOne \o DefWord \o BreakNumberTwo, NumberOne \o DefWord \o BreakNumberTwo \o DefWord \o <<BR>>}
MaxSplitBlocks == 2
SplitBacks ==
    {pre \o tag \o QuotedDef \o x \o <<SPANCLOSE>> :
        pre \in SplitPrefixes, tag \in {GrayRgbTag, GrayHexTag}, x \in Concats(BlockPieces, MaxSplitBlocks)}
InitSplit == \E b \in SplitBacks : InitWith(Headword, b)
SpecSplit == InitSplit /\ [][NextOnce]_vars

(* Fronts with and without a marker, and one quoted sentence of a few words:
   markers, the headword, an inflected form, a word that ends in "en" *)
ArticleFronts ==
    {Headword, <<"e", "n", SP>> \o Headword, <<"E", "t", "t", SP>> \o Headword,
     <<"a", "t", "t", SP>> \o Headword, <<"A", "t", "t", SP>> \o Headword}
ArticleWords ==
    {<<"e", "n">>, <<"e", "t", "t">>, <<"a", "t", "t">>, <<"d", "e", "n">>, Headword, Headword \o <<"m", "e", "n">>}
MaxArticleWords == 3
ArticleSentences == {Tail(y) : y \in Concats({<<SP>> \o w : w \in ArticleWords}, MaxArticleWords) \ {<<>>}}
InitArticle == \E f \in ArticleFronts, x \in ArticleSentences : InitWith(f, DefWord \o <<BR>> \o Quoted(x))
SpecArticle == InitArticle /\ [][NextOnce]_vars

(* Fronts of one short word, one word of 4 and of 5 characters, and two words,
   and one quoted sentence of forms the candidates cover and forms they do not *)
Sta == <<"s", "t", "a">>
TwoWords == Sta \o <<SP, "m">>
MatchFronts == {Sta, Headword, Headword \o <<"a">>, TwoWords}
MatchWords ==
    {Sta, <<"m">>, Headword, Headword \o <<"a">>, Headword \o <<"m", "e", "n">>,
     Headword \o <<"m", "a", "r", "n", "a">>, <<"d">> \o Headword}
MaxMatchWords == 3
MatchSentences == {Tail(y) : y \in Concats({<<SP>> \o w : w \in MatchWords}, MaxMatchWords) \ {<<>>}}
InitMatch == \E f \in MatchFronts, x \in MatchSentences : InitWith(f, DefWord \o <<BR>> \o Quoted(x))
SpecMatch == InitMatch /\ [][NextOnce]_vars

-----------------------------------------------------------------------------
(* AnkiDeckCleaner: the review of a deck, batch after batch *)

\* sorted(ids, key=...): the ids of DOMAIN keys in the order of their keys
SortedIds(keys) ==
    CHOOSE s \in [1..Cardinality(DOMAIN keys) -> DOMAIN keys] :
        \A i \in DOMAIN s : \A j \in DOMAIN s : i < j => keys[s[i]] < keys[s[j]]

DueValues == {0, 1}
RepsValues == {0, 1}

\* the keys (due, cid) and (reps, due, cid) as one number each, cid last
DueKey(deck, c) == deck[c].due * (Len(deck) + 1) + c
RepsKey(deck, c) == (deck[c].reps * (Cardinality(DueValues) + 1) + deck[c].due) * (Len(deck) + 1) + c

\* _build_prioritized_card_ids: the cards that are neither due nor suspended by
\* (due, id), then the due or suspended cards by (reps, due, id)
BuildPrioritizedCardIds(deck) ==
    LET phase1 == {c \in DOMAIN deck : ~deck[c].due_or_suspended}
        phase2 == {c \in DOMAIN deck : deck[c].due_or_suspended}
    IN SortedIds([c \in phase1 |-> DueKey(deck, c)]) \o SortedIds([c \in phase2 |-> RepsKey(deck, c)])

\* the list built on every call, whatever the cache holds
AlwaysBuilt(cache, startFrom, built) == built

\* card_ids: built and stored when start_from == 0 or the cache has no entry
CardIdsFor(cache, startFrom, built) ==
    IF startFrom = 0 \/ cache = <<>> THEN built ELSE cache[1]

\* a card whose note id or whose two fields cannot be had; it is counted in skipped_count
Skipped(card) == ~card.note_id \/ Len(card.fields) < 2

\* cards_to_review for the cards of the batch, in their order
RECURSIVE CardsToReview(_, _)
CardsToReview(deck, batch) ==
    IF Len(batch) = 0 THEN <<>>
    ELSE LET c == Head(batch)
             Entry(r) ==
                 IF r.changed
                 THEN <<[card_id |-> c, original_front |-> deck[c].fields[1], original_back |-> deck[c].fields[2],
                         new_front |-> r.front, new_back |-> r.back]>>
                 ELSE <<>>
         IN (IF Skipped(deck[c]) THEN <<>> ELSE Entry(FreshResult(deck[c].fields[1], deck[c].fields[2])))
            \o CardsToReview(deck, Tail(batch))

BatchOf(cardIds, batchSize, startFrom) ==
    SubSeq(cardIds, startFrom + 1, IF startFrom + batchSize < Len(cardIds) THEN startFrom + batchSize ELSE Len(cardIds))

\* the dictionary process_cards_for_review returns
ReviewResult(deck, cardIds, batchSize, startFrom) ==
    LET batch == BatchOf(cardIds, batchSize, startFrom)
    IN IF Len(batch) = 0 THEN [cards |-> <<>>, skipped_count |-> 0, total_cards |-> Len(cardIds)]
       ELSE [cards |-> CardsToReview(deck, batch),
             skipped_count |-> Cardinality({k \in 1..Len(batch) : Skipped(deck[batch[k]])}),
             total_cards |-> Len(cardIds),
             processed_count |-> Len(batch),
             start_from |-> startFrom,
             next_start_from |-> startFrom + Len(batch)]

\* process_cards_for_review(deck, batch_size, start_from), called by the client
\* with start_from = 0 first and the last next_start_from afterwards
ProcessCardsForReview ==
    /\ review.pc = "paging"
    /\ LET built == BuildPrioritizedCardIds(review.deck)
           cardIds == CardIdsFor(review.cache, review.startFrom, built)
           batch == BatchOf(cardIds, review.batchSize, review.startFrom)
       IN review' = [review EXCEPT
                       !.cache = IF review.startFrom = 0 \/ review.cache = <<>> THEN <<built>> ELSE @,
                       !.result = ReviewResult(review.deck, cardIds, review.batchSize, review.startFrom),
                       !.examined = @ \o batch,
                       !.built = IF review.startFrom = 0 THEN built ELSE @,
                       !.startFrom = @ + Len(batch),
                       !.pc = IF Len(batch) = 0 THEN "done" ELSE "paging"]
    /\ UNCHANGED <<front, back, pc, calls, outFront, outBack, changed, normFront, normBack, definitions, cleaned, italicTerms, italicArticle, peer>>

\* time passes in Anki between two calls: a card becomes due
BecomesDue ==
    /\ review.pc = "paging"
    /\ \E c \in DOMAIN review.deck :
          /\ ~review.deck[c].due_or_suspended
          /\ review' = [review EXCEPT !.deck[c].due_or_suspended = TRUE]
    /\ UNCHANGED <<front, back, pc, calls, outFront, outBack, changed, normFront, normBack, definitions, cleaned, italicTerms, italicArticle, peer>>

MaxCards == 2
MaxBatch == 2
CleanFields == <<Headword, DefWord>>
UncleanFields == <<Headword, DefWord \o <<BR>> \o Quoted(Headword)>>
ReviewNotes ==
    {[note_id |-> TRUE, fields |-> CleanFields], [note_id |-> TRUE, fields |-> UncleanFields],
     [note_id |-> FALSE, fields |-> UncleanFields], [note_id |-> TRUE, fields |-> <<Headword>>]}
ReviewCards ==
    {[due_or_suspended |-> p, due |-> d, reps |-> r, note_id |-> n.note_id, fields |-> n.fields] :
        p \in BOOLEAN, d \in DueValues, r \in RepsValues, n \in ReviewNotes}
ReviewDecks == UNION {[1..n -> ReviewCards] : n \in 0..MaxCards}

InitReview ==
    /\ front = <<>> /\ back = <<>> /\ pc = "idle" /\ calls = 0
    /\ outFront = <<>> /\ outBack = <<>> /\ changed = FALSE
    /\ normFront = <<>> /\ normBack = <<>> /\ definitions = <<>> /\ cleaned = <<>>
    /\ italicTerms = <<>> /\ italicArticle = "" /\ peer = NoPeer
    /\ \E d \in ReviewDecks, b \in 1..MaxBatch :
          review = [NoReview EXCEPT !.pc = "paging", !.deck = d, !.batchSize = b]

NextReview == ProcessCardsForReview \/ BecomesDue

SpecReview == InitReview /\ [][NextReview]_vars

----------------------------------------------------------------------------
(* One CardCleaner called with one card after the other; a call returns or *)
(* leaves by an exception                                                  *)

SeqFronts == {Headword, <<"a", "t", "t", SP>> \o Headword, DefWord, <<>>}
SeqBacks ==
    {DefWord \o <<BR, QT>> \o Headword \o <<QT>>,
     DefWord \o <<BR, QT>> \o DefWord \o <<SP>> \o Headword \o <<QT, BR, ORSEP, SP>> \o Headword,
     DefWord \o <<BR>> \o GrayHexTag \o <<"(", "s", "y", "n", ":", SP>> \o Headword \o <<")", SPANCLOSE>>}
SeqCards == {[front |-> f, back |-> b] : f \in SeqFronts, b \in SeqBacks}

MaxSeqCalls == 3

\* the caller calls clean_card with the next card
Call ==
    /\ pc \in {"returned", "raised"}
    /\ calls < MaxSeqCalls
    /\ \E c \in SeqCards : front' = c.front /\ back' = c.back
    /\ pc' = "ready"
    /\ UNCHANGED <<calls, outFront, outBack, changed, normFront, normBack, definitions, cleaned, italicTerms, italicArticle, peer, review>>

InitCalls == \E c \in SeqCards : InitWith(c.front, c.back)

NextCalls == Begin \/ Finish \/ Abort \/ Call

SpecCalls == InitCalls /\ [][NextCalls]_vars

----------------------------------------------------------------------------
(* One CardCleaner, the card_cleaner of AnkiDeckCleaner, called by two     *)
(* threads with two different cards.  A thread is switched between the     *)
(* call of _set_italic_terms_from_front and the try block.                 *)

InitShared ==
    \E c \in SeqCards, d \in SeqCards :
        /\ c # d
        /\ front = c.front
        /\ back = c.back
        /\ pc = "ready"
        /\ calls = 0
        /\ outFront = <<>>
        /\ outBack = <<>>
        /\ changed = FALSE
        /\ normFront = <<>>
        /\ normBack = <<>>
        /\ definitions = <<>>
        /\ cleaned = <<>>
        /\ italicTerms = <<>>
        /\ italicArticle = ""
        /\ peer = [NoPeer EXCEPT !.pc = "ready", !.front = d.front, !.back = d.back]
        /\ review = NoReview

NextShared == Begin \/ Finish \/ PeerBegin \/ PeerFinish

SpecShared == InitShared /\ [][NextShared]_vars

----------------------------------------------------------------------------
(* Properties *)

Returned == pc = "returned"

\* C1: clean_card called on the card it returned gives back the same front
\* and back, with changed false.
C1_Idempotent == (Returned /\ calls = 2) => (~changed /\ outFront = front /\ outBack = back)

\* C3: the changed flag is true exactly when the returned front or back
\* differs from the raw argument it was called with.
C3_ChangedIffDiffers == Returned => (changed <=> (outFront # front \/ outBack # back))

\* a call whose only effect is the decoding of an entity of the back
C3_DecodedOnly == Returned /\ changed /\ outFront = front /\ outBack = normBack /\ outBack # back /\ calls = 1

\* the positions where a count "(k)" starts
CountGroups(f) == {i \in 1..Len(f) : f[i] = "(" /\ \E j \in (i + 2)..Len(f) : f[j] = ")" /\ \A k \in (i + 1)..(j - 1) : f[k] \in Digits}

\* C4: with N > 1 segments the returned front ends in "(N)" and holds exactly
\* one count; with one segment the front is the decoded front, its count
\* neither added nor removed.
C4_FrontCount ==
    Returned =>
        LET n == Len(definitions)
        IN /\ n > 1 => (EndsWith(outFront, <<"(">> \o Numeral(n) \o <<")">>) /\ Cardinality(CountGroups(outFront)) = 1)
           /\ n = 1 => outFront = normFront

\* a "N. " prefix starts at i
NumberPrefixAt(b, i) == \E j \in (i + 1)..(Len(b) - 1) : b[j] = "." /\ b[j + 1] = SP /\ \A k \in i..(j - 1) : b[k] \in Digits

\* the separators <br><br> in front of a "N. " prefix, each as <<first, last>>
NumberedSeparators(b) == {<<i, i + 1>> : i \in {k \in 1..(Len(b) - 1) : b[k] = BR /\ b[k + 1] = BR /\ NumberPrefixAt(b, k + 2)}}

\* the separators <br>Or, with the white space around "Or,", each as <<first, last>>
OrSeparators(b) ==
    {x \in (1..Len(b)) \X (1..Len(b)) :
        /\ b[x[1]] = BR
        /\ \E k \in (x[1] + 1)..x[2] :
              /\ b[k] = ORSEP
              /\ \A m \in ((x[1] + 1)..(k - 1)) \cup ((k + 1)..x[2]) : b[m] = SP
        /\ (x[2] = Len(b) \/ b[x[2] + 1] # SP)}

\* the parts of b between the separators of seps, from index from on
RECURSIVE PartsBetween(_, _, _)
PartsBetween(b, seps, from) ==
    IF seps = {} THEN <<SubSeq(b, from, Len(b))>>
    ELSE LET first == CHOOSE x \in seps : \A y \in seps : x[1] <= y[1]
         IN <<SubSeq(b, from, first[1] - 1)>> \o PartsBetween(b, seps \ {first}, first[2] + 1)

\* a part without the white space around it
Trimmed(p) ==
    LET solid == {k \in 1..Len(p) : p[k] # SP}
    IN IF solid = {} THEN <<>>
       ELSE SubSeq(p, CHOOSE k \in solid : \A m \in solid : k <= m, CHOOSE k \in solid : \A m \in solid : k >= m)

\* a trimmed part without its "N." and the white space after it
Unnumbered(p) ==
    LET dots == {j \in 2..Len(p) : p[j] = "." /\ \A k \in 1..(j - 1) : p[k] \in Digits}
    IN IF dots = {} THEN p
       ELSE LET j == CHOOSE x \in dots : TRUE
                rest == {k \in (j + 1)..Len(p) : p[k] # SP}
            IN IF rest = {} THEN <<>> ELSE SubSeq(p, CHOOSE k \in rest : \A m \in rest : k <= m, Len(p))

NotEmpty(p) == p # <<>>

\* the segments the rule of extraction gives for b
SegmentsOf(b) ==
    LET numbered == PartsBetween(b, NumberedSeparators(b), 1)
        ors == PartsBetween(b, OrSeparators(b), 1)
    IN IF Len(numbered) > 1 THEN SelectSeq([k \in 1..Len(numbered) |-> Unnumbered(Trimmed(numbered[k]))], NotEmpty)
       ELSE IF Len(ors) > 1 THEN SelectSeq([k \in 1..Len(ors) |-> Trimmed(ors[k])], NotEmpty)
       ELSE <<Trimmed(b)>>

\* C8: the segments are the parts between the <br><br> that precede a "N. "
\* prefix, without their numbering; if there is one such part, the parts
\* between the <br>Or, separators; if there is one again, the whole text.
\* Empty parts are dropped.
C8_ExtractionPriority == Returned => definitions = SegmentsOf(normBack)

\* a numbered split of a back that also holds "Or,", with an empty part dropped
C8_NumberedOverOr ==
    /\ Returned
    /\ Cardinality(NumberedSeparators(normBack)) = 2
    /\ OrSeparators(normBack) # {}
    /\ Len(definitions) = 2

\* the back made of the segments cl from the i-th on
RECURSIVE NumberedFrom(_, _)
NumberedFrom(cl, i) ==
    IF i > Len(cl) THEN <<>>
    ELSE (IF i > 1 THEN <<BR, BR>> ELSE <<>>) \o <<DigitOf[i + 1], ".", SP>> \o cl[i] \o NumberedFrom(cl, i + 1)

\* C9: the returned back is the cleaned segments in the order of the input,
\* the i-th after "i. " and <br><br> between them when there are several,
\* and the one cleaned segment without a number when there is one.
C9_Reassembly ==
    Returned =>
        LET n == Len(definitions)
        IN /\ Len(cleaned) = n
           /\ \A k \in 1..n : cleaned[k] = CleanDefinition(definitions[k], k = 1, TermsOf(normFront), ArticleOf(normFront))
           /\ n > 1 => outBack = NumberedFrom(cleaned, 1)
           /\ n = 1 => outBack = cleaned[1]

\* two segments, the second one changed by its cleaning
C9_TwoCleaned == Returned /\ Len(definitions) = 2 /\ cleaned[2] # definitions[2] /\ cleaned[1] # cleaned[2]

\* C2: a card in canonical form is returned as it was passed in, front and
\* back, with changed false; the open tags of its gray spans, written with
\* #C2C2C2 or with rgb(194, 194, 194) and a semicolon, are kept as they are.
C2_CanonicalUnchanged == Returned => (outFront = front /\ outBack = back /\ ~changed)

\* a numbered canonical card with a #C2C2C2 span and an rgb(194, 194, 194); span was cleaned
C2_CanonicalCleaned ==
    /\ Returned
    /\ Contains(back, GrayHexTag)
    /\ Contains(back, GrayRgbSemiTag)
    /\ Contains(back, EmphasizedExample)
    /\ Len(definitions) = 2
    /\ outBack = back

\* the style of the open tag that text starts with
StyleOf(text) == SubSeq(text, 2, (CHOOSE q \in 2..Len(text) : text[q] = ATTREND /\ \A m \in 2..(q - 1) : text[m] # ATTREND) - 1)

\* the places of the colour declarations of a style: "color:" and a value
ColorDeclarations(style) == {k \in 1..(Len(style) - 1) : style[k] = COLORKEY /\ style[k + 1] # SEMI}

\* the value of the first colour declaration of a style, without the white space around it
DeclaredColor(style) ==
    LET k == CHOOSE x \in ColorDeclarations(style) : \A y \in ColorDeclarations(style) : x <= y
        ends == {j \in (k + 1)..Len(style) : style[j] = SEMI} \cup {Len(style) + 1}
    IN Trimmed(SubSeq(style, k + 1, (CHOOSE j \in ends : \A m \in ends : j <= m) - 1))

MutedGray(v) == v \in {<<HEXUP>>, <<HEXLOW>>, <<RGBGRAY>>, <<RGBTIGHT>>}

\* C5, as the code has it: a styled span whose colour declaration is muted
\* gray keeps its style as written, as does a span with no colour
\* declaration; a styled span with any other colour gets the style
\* "color: rgb(194, 194, 194)", in front of its declarations that are no
\* colour declarations.
C5_GrayKeptOthersGrayed ==
    Returned =>
        LET old == StyleOf(back)
            new == StyleOf(outBack)
        IN /\ outBack[1] = SPANSTYLE
           /\ ColorDeclarations(old) = {} => new = old
           /\ (ColorDeclarations(old) # {} /\ MutedGray(DeclaredColor(old))) => new = old
           /\ (ColorDeclarations(old) # {} /\ ~MutedGray(DeclaredColor(old))) =>
                 /\ Len(new) >= 3
                 /\ SubSeq(new, 1, 3) = CanonicalColor
                 /\ ColorDeclarations(new) = {1}
                 /\ Len(new) > 3 => SubSeq(new, 4, 5) = <<SEMI, SP>>

\* a red span with a font declaration has been cleaned
C5_RedGrayed == Returned /\ StyleOf(back) = <<COLORKEY, SP, RED, SEMI, FONTDECL>> /\ StyleOf(outBack) = CanonicalColor \o <<SEMI, SP, FONTDECL>>

\* C5, as the claim has it: a styled span whose colour declaration is muted
\* gray gets the one declaration "color: rgb(194, 194, 194)", and a styled
\* span with any other colour keeps its colour declaration.
C5_GrayCanonicalOthersKept ==
    Returned =>
        LET old == StyleOf(back)
            new == StyleOf(outBack)
        IN ColorDeclarations(old) # {} =>
              /\ ColorDeclarations(new) # {}
              /\ MutedGray(DeclaredColor(old)) => (DeclaredColor(new) = <<RGBGRAY>> /\ Contains(new, CanonicalColor) /\ ~Contains(new, CanonicalColor \o <<SEMI>>))
              /\ ~MutedGray(DeclaredColor(old)) => DeclaredColor(new) = DeclaredColor(old)

\* entity decoding, the replacement of U+00A0 and U+00AD, and the gray-style normalization
NormalizeMarkup(text) == NormalizeGraySpanStyles(DecodeField(text))

\* C6: the markup normalization, run on its own result, changes nothing.
C6_NormalizeTwice == Returned => NormalizeMarkup(NormalizeMarkup(back)) = NormalizeMarkup(back)

NoSoft(s) == \A k \in 1..Len(s) : s[k] \notin {NBSP, SHY}

\* dec is raw with each U+00A0 and U+00AD, literal or an entity, replaced by one space
OneSpaceEach(raw, dec) ==
    LET u == Unescape(raw)
    IN Len(dec) = Len(u) /\ \A k \in 1..Len(u) : dec[k] = IF u[k] \in {NBSP, SHY} THEN SP ELSE u[k]

\* C7: the returned front and back hold no U+00A0 and no U+00AD; each one of
\* the input, literal or an entity, has become one space and the step changed
\* nothing else.
C7_NoSoftSpaces ==
    Returned => (NoSoft(outFront) /\ NoSoft(outBack) /\ OneSpaceEach(front, normFront) /\ OneSpaceEach(back, normBack))

\* a card cleaned whose back held U+00AD literally and U+00A0 as an entity
C7_SoftReplaced ==
    /\ Returned
    /\ \E k \in 1..Len(back) : back[k] = SHY
    /\ Contains(back, <<AMP, "nbsp;">>)
    /\ \E k \in 1..Len(front) : front[k] = NBSP
    /\ Len(outBack) > 2

\* no <i> after an <i> without a </i> between them
NoNestedItalic(s) ==
    \A i \in 1..Len(s) : \A j \in (i + 1)..Len(s) :
        (s[i] = IOPEN /\ s[j] = IOPEN) => \E k \in (i + 1)..(j - 1) : s[k] = ICLOSE

\* C10: the returned back holds no <i> inside a still open <i> region, for a
\* back that held none.
C10_NoNestedEmphasis == (Returned /\ NoNestedItalic(back)) => NoNestedItalic(outBack)

\* the places where the headword stands wrapped: <i>, the headword, </i>
Wrapped(s) == {k \in 1..Len(s) : MatchAt(s, k, <<IOPEN>> \o Headword \o <<ICLOSE>>)}

\* the place k is after an opening quotation mark and before its closing one
InQuotes(s, k) ==
    /\ Cardinality({j \in 1..(k - 1) : s[j] = QT}) % 2 = 1
    /\ \E j \in (k + 1)..Len(s) : s[j] = QT

\* the place k is in a styled span
InSpan(s, k) == \E i \in 1..(k - 1) : s[i] = SPANSTYLE /\ \A j \in i..k : s[j] # SPANCLOSE

\* the front begins with the infinitive marker
InfinitiveFront(f) == MatchAt(f, 1, <<"a", "t", "t", SP>>)

\* C11: for a front "att ...", the headword is wrapped in <i> only in
\* example text (a gray span, never a definition line) and only between an
\* opening quotation mark and its closing one, also when the quoted sentence
\* holds tags.
C11_QuoteScoped ==
    (Returned /\ InfinitiveFront(front)) =>
        \A k \in Wrapped(outBack) : InSpan(outBack, k) /\ InQuotes(outBack, k)

\* the places where the headword stands as a whole word
Candidates(s) ==
    {k \in 1..Len(s) :
        /\ MatchAt(s, k, Headword)
        /\ (k = 1 \/ s[k - 1] \notin WordChars)
        /\ (k + Len(Headword) > Len(s) \/ s[k + Len(Headword)] \notin WordChars)}

\* the place k is in an emphasis region: after an <i> with no </i> between them
InEmphasis(s, k) == \E i \in 1..(k - 1) : s[i] = IOPEN /\ \A j \in i..k : s[j] # ICLOSE

\* the place k is between the "(" of a "(pa ...)" parenthetical and its ")"
InPaParen(s, k) ==
    \E i \in 1..(k - 1) :
        /\ MatchAt(s, i, <<"(", PA>>)
        /\ \A j \in i..k : s[j] # ")"
        /\ \E c \in (k + 1)..Len(s) : s[c] = ")"

\* the number of places where p stands in s
Occurrences(s, p) == Cardinality({k \in 1..Len(s) : MatchAt(s, k, p)})

\* C12: the emphasis regions of the input are returned as they were, and in
\* example text every whole-word occurrence of the headword that is outside
\* them (and outside a "(pa ...)" parenthetical, the front not being "att
\* ...") stands in <i>: a tag that is no <i> or </i> opens and closes no
\* region.
C12_EmphasisHonored ==
    Returned =>
        /\ Occurrences(outBack, EmphasizedPhrase) = Occurrences(back, EmphasizedPhrase)
        /\ ~InfinitiveFront(front) =>
              \A k \in Candidates(outBack) :
                  (InSpan(outBack, k) /\ ~InPaParen(outBack, k)) => InEmphasis(outBack, k)

\* the <i> tags between the "(" of a "(pa ...)" parenthetical and its ")"
EmphasisInPaParen(s) == {k \in 1..Len(s) : s[k] = IOPEN /\ InPaParen(s, k)}

\* C13: no <i> is added between the "(" of a "(pa ...)" parenthetical and
\* its ")", for any front, also when the parenthetical holds the headword, a
\* quotation or a tag.
C13_PaParenKept == Returned => Cardinality(EmphasisInPaParen(outBack)) = Cardinality(EmphasisInPaParen(back))

\* s without the <i> and </i> that wrap the headword
RECURSIVE Unwrapped(_)
Unwrapped(s) ==
    IF Len(s) = 0 THEN <<>>
    ELSE IF MatchAt(s, 1, <<IOPEN>> \o Headword \o <<ICLOSE>>)
         THEN Headword \o Unwrapped(SubSeq(s, Len(Headword) + 3, Len(s)))
    ELSE <<Head(s)>> \o Unwrapped(Tail(s))

\* C14: for a front that yields no headword the returned back holds the
\* emphasis tags of the input and no other, and it is the back returned for
\* the same back with any front that has a headword, without the emphasis
\* added there.
C14_NoHeadword ==
    Returned =>
        /\ Occurrences(outBack, <<IOPEN>>) = Occurrences(back, <<IOPEN>>)
        /\ Occurrences(outBack, <<ICLOSE>>) = Occurrences(back, <<ICLOSE>>)
        /\ \A f \in ItalicFronts : Unwrapped(CleanedBack(f, back)) = outBack

\* a card with a sound marker and a count for a front, cleaned; with the
\* front "stam" the headword of its example would have been emphasized
C14_NoHeadwordCleaned ==
    /\ Returned
    /\ front = <<SOUND, SP, "(", "2", ")">>
    /\ outBack # back
    /\ Len(definitions) = 2
    /\ CleanedBack(Headword, back) # outBack

\* C15: between the calls of clean_card on one CardCleaner, whether the
\* last call returned or left by an exception, the italic context is empty;
\* and what a call returns is what a new CardCleaner returns for its
\* arguments, whatever was called before.
C15_NoLeak ==
    /\ pc \in {"ready", "returned", "raised"} => (italicTerms = <<>> /\ italicArticle = "")
    /\ Returned => [front |-> outFront, back |-> outBack, changed |-> changed] = FreshResult(front, back)

\* a call has left by an exception after a call that returned a card with emphasis
C15_RaisedAfterReturn ==
    /\ pc = "raised"
    /\ calls = 2
    /\ Wrapped(outBack) # {}
    /\ italicTerms = <<>>

\* C16: of two clean_card calls on two different cards that run interleaved
\* on one CardCleaner, each returns what it returns when it runs alone.
C16_Isolated ==
    /\ Returned => [front |-> outFront, back |-> outBack, changed |-> changed] = FreshResult(front, back)
    /\ peer.pc = "returned" =>
          [front |-> peer.outFront, back |-> peer.outBack, changed |-> peer.changed] = FreshResult(peer.front, peer.back)

----------------------------------------------------------------------------
(* Open tags without a close tag *)

LastBr(s) == IF \E k \in 1..Len(s) : s[k] = BR THEN CHOOSE k \in 1..Len(s) : s[k] = BR /\ \A j \in (k + 1)..Len(s) : s[j] # BR ELSE 0
LastLine(s) == SubSeq(s, LastBr(s) + 1, Len(s))

\* the positions of the open tags of s that no close tag follows and that
\* stand before the last line
UnmatchedAt(s) ==
    {k \in 1..LastBr(s) :
        \/ s[k] = IOPEN /\ \A j \in (k + 1)..Len(s) : s[j] # ICLOSE
        \/ s[k] = SPANSTYLE /\ \A j \in (k + 1)..Len(s) : s[j] # SPANCLOSE}

WithoutTag(s, k) == SubSeq(s, 1, k - 1) \o SubSeq(s, k + (IF s[k] = IOPEN THEN 1 ELSE Len(GrayRgbTag)), Len(s))

\* C17: clean_card returns for a back with an emphasis or styled-span open
\* tag that has no close tag, and the line after the lines of the tag, the
\* last line of the back, is classified and styled as it is when the
\* unmatched tag is taken out of the back.
C17_LaterLineStyled ==
    pc = "returned" =>
        \A k \in UnmatchedAt(back) : LastLine(outBack) = LastLine(CleanedBack(front, WithoutTag(back, k)))

----------------------------------------------------------------------------
(* The headword candidates *)

SingleWord(t) == \A k \in 1..Len(t) : t[k] # SP

\* C18: after the candidates are derived from the front there are none, one
\* or two of them, none is the empty string, they stand in the order of
\* non-increasing length, a candidate is suffix-tolerant only if it is one
\* word of at least 4 characters, and a second candidate exists only when
\* the first is one word of at least 5 characters that ends in "a" or "A",
\* and it is the first without that last character.
C18_CandidateInvariant ==
    pc = "running" =>
        /\ Len(italicTerms) <= 2
        /\ \A k \in 1..Len(italicTerms) : Len(italicTerms[k].term) > 0
        /\ \A k \in 1..(Len(italicTerms) - 1) : Len(italicTerms[k].term) >= Len(italicTerms[k + 1].term)
        /\ \A k \in 1..Len(italicTerms) :
              italicTerms[k].suffix => SingleWord(italicTerms[k].term) /\ Len(italicTerms[k].term) >= 4
        /\ Len(italicTerms) = 2 =>
              LET primary == italicTerms[1].term
              IN /\ SingleWord(primary)
                 /\ Len(primary) >= 5
                 /\ Lower(primary[Len(primary)]) = "a"
                 /\ italicTerms[2].term = SubSeq(primary, 1, Len(primary) - 1)

\* the front "stasta" has given the candidates "stasta" and "stast"
C18_StemDerived ==
    /\ pc = "running"
    /\ Len(italicTerms) = 2
    /\ italicTerms[1].term = <<"s", "t", "a", "s", "t", "a">>
    /\ italicTerms[2].suffix

----------------------------------------------------------------------------
(* The scenario card *)

Emphasized(x) == <<IOPEN>> \o x \o <<ICLOSE>>
GraySpan(x) == GrayRgbTag \o x \o <<SPANCLOSE>>

\* C19: for the front "Mogen" and the back of two numbered definitions with
\* the examples (t.ex. "Det var ett moget beslut") and (t.ex. "Mogna
\* tomater") clean_card returns the front "Mogen (2)", the two numbered
\* definitions, each followed by its example in one canonical gray span
\* with the form of the headword, "moget" and "Mogna", in emphasis, and
\* changed = TRUE.
C19_ScenarioMogen ==
    pc = "returned" /\ front = Mogen /\ back = ScenarioBack =>
        /\ outFront = Mogen \o <<SP, "(", "2", ")">>
        /\ changed
        /\ outBack = ScenarioCard(GraySpan(Quoted(DetVarEtt \o Emphasized(<<"m", "o", "g", "e", "t">>) \o Beslut)),
                                  GraySpan(Quoted(Emphasized(Mogna) \o Tomater)))

----------------------------------------------------------------------------
(* The "t.ex." shorthand *)

\* a quote follows at index k of s, after any white space
QuoteAhead(s, k) == SkipSpaces(s, k) <= Len(s) /\ s[SkipSpaces(s, k)] = QT

\* s[k] is a "(" in front of a quoted sentence, and a ")" closes it
WrapsQuote(s, k) ==
    /\ s[k] = "("
    /\ QuoteAhead(s, k + 1)
    /\ \E c \in (k + 1)..Len(s) : s[c] = ")" /\ \A j \in (k + 1)..(c - 1) : s[j] # "("

\* C20: in the back that clean_card returns no quoted example sentence is
\* preceded by "t.ex." and none is wrapped in parentheses, wherever the
\* shorthand stood in the back: on a plain line, in a parenthesized clause,
\* across several lines or on the lines of a gray span.
C20_ShorthandRemoved ==
    pc = "returned" =>
        \A k \in 1..Len(outBack) :
            /\ ~(Lower(outBack[k]) = TEX /\ QuoteAhead(outBack, k + 1))
            /\ ~WrapsQuote(outBack, k)

----------------------------------------------------------------------------
(* Lines outside spans *)

\* the line has the role of an example or of a synonym / reference note
GrayRole(l) == StartsDQuote(l) \/ IsSynonymOrExtra(l)

\* the number of maximal runs of consecutive example and note lines
Runs(ls) == Cardinality({k \in 1..Len(ls) : GrayRole(ls[k]) /\ (k = 1 \/ ~GrayRole(ls[k - 1]))})

SpanCount(s) == Cardinality({k \in 1..Len(s) : s[k] = SPANSTYLE})

\* the back is one segment of definition lines, quoted examples, notes and blank lines
SimpleLines(s) == \A k \in 1..Len(SplitBr(s)) : SplitBr(s)[k] \in {DefWord, Quoted(Headword), SynNote, <<>>}

LineStarts(s) == {k \in 1..Len(s) : k = 1 \/ s[k - 1] = BR}
LineStop(s, k) == IF \E j \in k..Len(s) : s[j] = BR THEN (CHOOSE j \in k..Len(s) : s[j] = BR /\ \A h \in k..(j - 1) : s[h] # BR) - 1 ELSE Len(s)
OpenSpans(s, k) == Cardinality({j \in 1..(k - 1) : s[j] = SPANSTYLE}) - Cardinality({j \in 1..(k - 1) : s[j] = SPANCLOSE})
WithoutNumber(l) == IF Len(l) >= 3 /\ l[1] \in {"1", "2"} /\ l[2] = "." /\ l[3] = SP THEN SubSeq(l, 4, Len(l)) ELSE l
Untagged(l) ==
    LET open == IF Len(l) > 0 /\ l[1] = SPANSTYLE THEN Len(GrayRgbTag) ELSE 0
        close == IF Len(l) > open /\ l[Len(l)] = SPANCLOSE THEN 1 ELSE 0
    IN SubSeq(l, open + 1, Len(l) - close)
OutLine(s, k) == WithoutNumber(SubSeq(s, k, LineStop(s, k)))
Spanned(s, k) == OpenSpans(s, k) > 0 \/ (Len(OutLine(s, k)) > 0 /\ OutLine(s, k)[1] = SPANSTYLE)

\* C22: in the returned back a non-blank line is inside a gray span exactly when
\* it begins with a quotation mark or matches a synonym/reference cue; definition
\* text carries no span, in every segment (the usage note merged into the span of
\* the quote before it is left aside).
C22_RoleToStyle ==
    pc = "returned" =>
        \A k \in LineStarts(outBack) :
            Len(Untagged(OutLine(outBack, k))) > 0 /\ ~IsUsageNote(Untagged(OutLine(outBack, k))) =>
                (Spanned(outBack, k) <=> GrayRole(Untagged(OutLine(outBack, k))))

(* The parenthesized quote group *)
EndsParen(l) == Len(l) > 0 /\ l[Len(l)] = ")"
GroupStop(ls) ==
    CHOOSE j \in 1..Len(ls) :
        /\ \A k \in 2..j : StartsDQuote(ls[k]) /\ (k < j => ~EndsParen(ls[k]))
        /\ j = Len(ls) \/ ~StartsDQuote(ls[j + 1]) \/ (j >= 2 /\ EndsParen(ls[j]))
QuotePart(l) ==
    LET a == CHOOSE k \in 1..Len(l) : l[k] = QT /\ \A h \in 1..(k - 1) : l[h] # QT
        z == CHOOSE k \in 1..Len(l) : l[k] = QT /\ \A h \in (k + 1)..Len(l) : l[h] # QT
    IN SubSeq(l, a, z)
Shown(q) == IF q = Quoted(Headword) THEN Quoted(Emphasized(Headword)) ELSE q
GroupSpan(ls) == GraySpan(Join([k \in 1..GroupStop(ls) |-> Shown(QuotePart(ls[k]))], <<BR>>))
BeginsWithLine(s, x) == Len(s) >= Len(x) /\ SubSeq(s, 1, Len(x)) = x /\ (Len(s) = Len(x) \/ s[Len(x) + 1] = BR)

\* C23: a line 'D ("q1' with definition text D is returned as the unstyled line D
\* followed by one gray span holding q1 and the quoted lines right after it, one
\* per line, up to and including the first of them that ends in ')' and not past
\* a blank or unquoted line; the closing ')' and the commas after the quotes are gone.
C23_ParenGroup ==
    pc = "returned" /\ Len(back) >= Len(ParenLine) /\ SplitBr(back)[1] = ParenLine =>
        BeginsWithLine(outBack, DefWord \o <<BR>> \o GroupSpan(SplitBr(back)))

C23_GroupAbsorbed ==
    /\ pc = "returned"
    /\ back = ParenLine \o <<BR>> \o Quoted(Headword) \o <<",", BR>> \o Quoted(DefWord) \o <<")">>
    /\ outBack = DefWord \o <<BR>> \o GraySpan(Quoted(Emphasized(Headword)) \o <<BR>> \o Quoted(Emphasized(Headword)) \o <<BR>> \o Quoted(DefWord))

(* The t.ex. clause before a note *)
ContainsLines(s, x) ==
    \E k \in LineStarts(s) :
        /\ k + Len(x) - 1 <= Len(s)
        /\ SubSeq(s, k, k + Len(x) - 1) = x
        /\ k + Len(x) - 1 = Len(s) \/ s[k + Len(x)] = BR
ShownExample == Quoted(Emphasized(Headword))

\* C24: a line 'D (t.ex. "q")' followed at once by a synonym/reference note is
\* returned as the unstyled line D and one gray span holding "q", one <br> and the
\* note, and the note is not emitted a second time; followed by a blank line, by a
\* line that is no note, or by nothing, the example has a span of its own.
C24_TexBeforeNote ==
    pc = "returned" =>
        /\ Occurrences(outBack, SynNote) = Occurrences(back, SynNote)
        /\ \A k \in 1..Len(SplitBr(back)) :
              SplitBr(back)[k] = TexLine =>
                 IF k < Len(SplitBr(back)) /\ SplitBr(back)[k + 1] = SynNote
                 THEN ContainsLines(outBack, DefWord \o <<BR>> \o GraySpan(ShownExample \o <<BR>> \o SynNote))
                 ELSE ContainsLines(outBack, DefWord \o <<BR>> \o GraySpan(ShownExample))

C24_NoteMerged ==
    /\ pc = "returned"
    /\ back = TexLine \o <<BR>> \o SynNote
    /\ outBack = DefWord \o <<BR>> \o GraySpan(ShownExample \o <<BR>> \o SynNote)

(* The usage note after a quote *)
Absorbed(ls, k) ==
    \E p \in 1..(k - 1) : ls[p] = ParenLine /\ p + GroupStop(SubSeq(ls, p, Len(ls))) - 1 >= k
ShownUsageNote == <<ORDET, SP, ANVANDS, SP>> \o Emphasized(Headword)

LastSpan(s) == CHOOSE k \in 1..Len(s) : s[k] = SPANSTYLE /\ \A h \in (k + 1)..Len(s) : s[h] # SPANSTYLE
SegmentStart(s) ==
    IF \E k \in 1..Len(s) : MatchAt(s, k, BreakNumberTwo)
    THEN (CHOOSE k \in 1..Len(s) : MatchAt(s, k, BreakNumberTwo)) + Len(BreakNumberTwo)
    ELSE IF MatchAt(s, 1, NumberOne) THEN Len(NumberOne) + 1 ELSE 1
TextBefore(s) == \E k \in SegmentStart(s)..(LastSpan(s) - 1) : s[k] # BR
InnerBreaks(s) == {k \in (LastSpan(s) + 1)..(Len(s) - 1) : s[k] = BR /\ s[k + 1] = BR}
FirstInnerBreak(s) == CHOOSE k \in InnerBreaks(s) : \A h \in InnerBreaks(s) : k <= h
SplitDue(s) == TextBefore(s) /\ InnerBreaks(s) # {} /\ s[FirstInnerBreak(s) + 2] = "("
SplitOnce(s) ==
    SubSeq(s, 1, FirstInnerBreak(s) - 1) \o <<SPANCLOSE, BR, BR>>
    \o SubSeq(s, LastSpan(s), LastSpan(s) + Len(GrayRgbTag) - 1) \o SubSeq(s, FirstInnerBreak(s) + 2, Len(s))

C26_FirstSpanKept ==
    /\ pc = "returned"
    /\ back = <<BR>> \o GrayRgbTag \o QuotedDef \o <<BR, BR>> \o SynNote \o <<SPANCLOSE>>
    /\ outBack = back

(* The marker of the front *)
Marker(f) ==
    IF Len(f) = Len(Headword) THEN ""
    ELSE IF Lower(f[1]) = "a" THEN "att"
    ELSE IF Len(f) = Len(Headword) + 3 THEN "en" ELSE "ett"
Forms == {Headword, Headword \o <<"m", "e", "n">>}
Blocked(ws, j, marker) ==
    /\ j > 1
    /\ \/ marker = "att" /\ ws[j - 1] \in {<<"e", "n">>, <<"e", "t", "t">>}
       \/ marker \in {"en", "ett"} /\ ws[j - 1] = <<"a", "t", "t">>
ShownWords(ws, marker) ==
    Join([j \in 1..Len(ws) |-> IF ws[j] \in Forms /\ ~Blocked(ws, j, marker) THEN Emphasized(ws[j]) ELSE ws[j]], <<SP>>)
SentenceOf(b) == SubSeq(b, Len(DefWord) + 3, Len(b) - 1)

\* C27: the marker en, ett or att that leads the front is recorded, in lower
\* case, and is not part of the candidate; with the marker att a form of the
\* headword right after the word en or ett is not emphasized, with the marker en
\* or ett a form right after the word att is not emphasized, and every other
\* form in the quoted sentence is.
C27_ArticleSensitive ==
    /\ pc = "running" =>
          italicArticle = Marker(front) /\ Len(italicTerms) = 1 /\ italicTerms[1].term = Headword
    /\ pc = "returned" =>
          outBack = DefWord \o <<BR>> \o GraySpan(Quoted(ShownWords(SplitLex(SentenceOf(back), SP, 1, <<>>), Marker(front))))

C27_NounAfterInfinitive ==
    /\ pc = "returned"
    /\ front = <<"A", "t", "t", SP>> \o Headword
    /\ back = DefWord \o <<BR>> \o Quoted(<<"e", "n", SP>> \o Headword \o <<SP>> \o Headword \o <<"m", "e", "n">>)
    /\ outBack = DefWord \o <<BR>> \o GraySpan(Quoted(<<"e", "n", SP>> \o Headword \o <<SP>> \o Emphasized(Headword \o <<"m", "e", "n">>)))

(* The match rule *)
Tolerant(c) == SingleWord(c) /\ Len(c) >= MinSuffixLen
FormCandidates(f) == IF f = Headword \o <<"a">> THEN {f, Headword} ELSE {f}
Covers(c, w) ==
    /\ Len(w) >= Len(c)
    /\ SubSeq(w, 1, Len(c)) = c
    /\ Len(w) - Len(c) <= (IF Tolerant(c) THEN MaxSuffix ELSE 0)
RECURSIVE ShownForms(_, _)
ShownForms(ws, f) ==
    IF Len(ws) = 0 THEN <<>>
    ELSE IF ~SingleWord(f)
    THEN IF Len(ws) >= 2 /\ ws[1] \o <<SP>> \o ws[2] = f
         THEN <<Emphasized(f)>> \o ShownForms(SubSeq(ws, 3, Len(ws)), f)
         ELSE <<ws[1]>> \o ShownForms(Tail(ws), f)
    ELSE <<IF \E c \in FormCandidates(f) : Covers(c, ws[1]) THEN Emphasized(ws[1]) ELSE ws[1]>> \o ShownForms(Tail(ws), f)

\* C28: in a quoted sentence a candidate of several words is emphasized where
\* the exact phrase stands between word boundaries; a candidate of one word is
\* emphasized where a word begins with it and has at most 3 further characters
\* (none when the candidate is shorter than 4 characters); a word with characters
\* before the candidate is left alone; every form the longer candidate or the
\* stem covers is emphasized.
C28_MatchRule ==
    pc = "returned" =>
        outBack = DefWord \o <<BR>> \o GraySpan(Quoted(Join(ShownForms(SplitLex(SentenceOf(back), SP, 1, <<>>), front), <<SP>>)))

C28_FormsCovered ==
    /\ pc = "returned"
    /\ front = Headword \o <<"a">>
    /\ back = DefWord \o <<BR>> \o Quoted(Headword \o <<"m", "e", "n", SP, "d">> \o Headword \o <<SP>> \o Headword \o <<"a">>)
    /\ outBack = DefWord \o <<BR>> \o GraySpan(Quoted(Emphasized(Headword \o <<"m", "e", "n">>) \o <<SP, "d">> \o Headword \o <<SP>> \o Emphasized(Headword \o <<"a">>)))

(* The text of the card *)
IsLetter(x) == x \in Letters \cup {ORDET, ANVANDS}
LettersOf(s) == SelectSeq(s, IsLetter)

\* C29: clean_card drops no text of the card: the letters of the back, in
\* their order, are the letters of the returned back (shorthand, numbering,
\* separators, parentheses, commas, white space and tags left aside), also
\* when text or a second (t.ex. "...") clause follows a (t.ex. "...") clause on
\* its line, whatever the next line is.
C29_TextPreserved ==
    pc = "returned" => LettersOf(outBack) = LettersOf(back)

-----------------------------------------------------------------------------
(* The review of a deck *)

IsPrefix(x, y) == Len(x) <= Len(y) /\ SubSeq(y, 1, Len(x)) = x
Paged(r) == "next_start_from" \in DOMAIN r

\* C30: a client that calls process_cards_for_review with start_from 0 and then
\* with the last next_start_from, until a batch is empty, has examined the cards
\* of the list built at start_from 0 in the order of that list, each once, and
\* all of them when the empty batch comes; next_start_from is at most
\* total_cards; the returned cards and the skipped ones together are at most
\* processed_count; a returned card is one that clean_card changes.
C30_ReviewPaging ==
    review.pc \in {"paging", "done"} =>
        /\ IsPrefix(review.examined, review.built)
        /\ review.startFrom = Len(review.examined)
        /\ review.pc = "done" => review.examined = review.built
        /\ Paged(review.result) =>
              /\ review.result.next_start_from <= review.result.total_cards
              /\ review.result.next_start_from = review.startFrom
              /\ Len(review.result.cards) + review.result.skipped_count <= review.result.processed_count
        /\ \A k \in 1..Len(review.result.cards) :
              LET card == review.result.cards[k]
              IN /\ card.new_front # card.original_front \/ card.new_back # card.original_back
                 /\ card.card_id \in {review.examined[j] : j \in 1..Len(review.examined)}

C30_DeckCovered ==
    /\ review.pc = "done"
    /\ review.batchSize = 1
    /\ Len(review.examined) = 2
    /\ BuildPrioritizedCardIds(review.deck) # review.built

====
